---- MODULE Spec2Model ----
(***************************************************************************)
(* State-machine model of the span tracer of                               *)
(* backend/observability_tracer.py: class Span and class                   *)
(* ObservabilityTracer.                                                    *)
(*                                                                         *)
(* Span objects live in a heap `spans` (object id -> fields).  The id of   *)
(* an object is the span_id that Span.__init__ draws from uuid4; a fresh   *)
(* uuid is modelled by the next unused natural number.  The tracer's       *)
(* active_spans dict is the set of its keys (each key maps to the object   *)
(* of that id), all_spans is a sequence of ids, and each span's children   *)
(* list is a sequence of ids.                                              *)
(*                                                                         *)
(* time.time() returns float seconds; the model counts the clock in ticks  *)
(* of 1/TicksPerMs millisecond, starting at 1 (epoch times are positive),  *)
(* and a reading never lies before the previous reading.                   *)
(*                                                                         *)
(* name, metadata, input_data and output_data are opaque payload that no   *)
(* tracer operation reads or changes after construction; they are left     *)
(* out of the span record.                                                 *)
(***************************************************************************)
EXTENDS Integers, Sequences, FiniteSets, TLC

\* ------------------------------------------------------------------ bounds
MaxSpans == 2        \* Span objects the sequential callers construct
MaxClock == 3        \* last clock tick
TicksPerMs == 2      \* clock resolution: ticks per millisecond
NumAgents == 2       \* concurrent callers of start_span (SpecConc)

\* ------------------------------------------------------------ Python None
None == "None"       \* None in a string-valued field (error, model, ...)
NoneId == 0          \* None as a span id (parent_span_id, root_span)
NoneNum == -1        \* None in a numeric field (end_time, duration_ms, ...)

GhostId == 99        \* a span id that names no span of this tracer

SpanType == {"root", "agent", "llm_call", "api_call", "database", "tool", "retrieval"}
SpanStatus == {"running", "success", "error"}

\* Inputs the callers draw from.
StartTypes == {"agent", "llm_call", "api_call", "database"}
ErrorArgs == {None, "", "boom"}
Agents == 1..NumAgents

VARIABLES
    clock,          \* the last value time.time() returned
    spans,          \* heap of Span objects: span_id -> fields
    root_span,      \* ObservabilityTracer.root_span (an id, or NoneId)
    active_spans,   \* keys of ObservabilityTracer.active_spans
    all_spans,      \* ObservabilityTracer.all_spans, as ids
    pc,             \* SpecConc: each agent's position inside start_span
    cur,            \* SpecConc: the span each agent is registering
    workflow_doc,   \* the workflow document handed to the failure detector
    detector,       \* the CoordinationFailureDetector object a caller holds
    returned        \* what the last detector call returned or raised

vars == <<clock, spans, root_span, active_spans, all_spans, pc, cur,
          workflow_doc, detector, returned>>

\* -------------------------------------------------------------------- Span

\* bool(x) of an Optional[str]: None and "" are falsy.
Truthy(s) == s # None /\ s # ""

\* Span.__init__
NewSpan(id, type, parent, now) ==
    [ span_id |-> id, span_type |-> type, parent_span_id |-> parent,
      status |-> "running", start_time |-> now, end_time |-> NoneNum,
      duration_ms |-> NoneNum, error |-> None, children |-> << >>,
      model |-> None, tokens_input |-> NoneNum, tokens_output |-> NoneNum,
      tokens_total |-> NoneNum, cost_usd |-> NoneNum,
      temperature |-> NoneNum, max_tokens |-> NoneNum, streaming |-> FALSE,
      http_method |-> None, http_url |-> None, http_status |-> NoneNum,
      db_operation |-> None, db_collection |-> None ]

\* int((end_time - start_time) * 1000): whole milliseconds, truncated toward 0
DurationMs(start, end) ==
    IF end >= start THEN (end - start) \div TicksPerMs
    ELSE 0 - ((start - end) \div TicksPerMs)

\* Variants of Span.end with a plausible slip each.
\* The requested status is assigned after the error branch.
SpanEnd_StatusLast(span, now, status, error) ==
    [span EXCEPT !.end_time = now,
                 !.duration_ms = DurationMs(span.start_time, now),
                 !.error = IF Truthy(error) THEN error ELSE span.error,
                 !.status = status]

\* The duration is computed only the first time the span is ended.
SpanEnd_StaleDuration(span, now, status, error) ==
    [span EXCEPT !.end_time = now,
                 !.duration_ms = IF span.duration_ms = NoneNum
                                 THEN DurationMs(span.start_time, now)
                                 ELSE span.duration_ms,
                 !.error = IF Truthy(error) THEN error ELSE span.error,
                 !.status = IF Truthy(error) THEN "error" ELSE status]

\* The error branch tests the recorded error as well as the supplied one.
SpanEnd_StickyError(span, now, status, error) ==
    [span EXCEPT !.end_time = now,
                 !.duration_ms = DurationMs(span.start_time, now),
                 !.error = IF Truthy(error) THEN error ELSE span.error,
                 !.status = IF Truthy(error) \/ Truthy(span.error)
                            THEN "error" ELSE status]

\* Span.end
SpanEnd(span, now, status, error) ==
    LET stamped == [span EXCEPT !.end_time = now,
                                !.duration_ms = DurationMs(span.start_time, now),
                                !.status = status]
    IN  IF Truthy(error)
        THEN [stamped EXCEPT !.error = error, !.status = "error"]
        ELSE stamped

\* Span.add_llm_details
SpanAddLlmDetails(span, model, tokens_input, tokens_output, cost_usd) ==
    [span EXCEPT !.model = model, !.tokens_input = tokens_input,
                 !.tokens_output = tokens_output,
                 !.tokens_total = tokens_input + tokens_output,
                 !.cost_usd = cost_usd, !.temperature = NoneNum,
                 !.max_tokens = NoneNum, !.streaming = FALSE]

\* Span.add_api_details
SpanAddApiDetails(span, method, url, status_code) ==
    [span EXCEPT !.http_method = method, !.http_url = url,
                 !.http_status = status_code]

\* Span.add_database_details
SpanAddDatabaseDetails(span, operation, collection) ==
    [span EXCEPT !.db_operation = operation, !.db_collection = collection]

\* ------------------------------------------------------ ObservabilityTracer

NextId == Cardinality(DOMAIN spans) + 1

\* ObservabilityTracer.__init__
\* A workflow document that carries no detailed_trace.
NoWorkflow ==
    [ run_id |-> "run-1",
      detailed_trace |-> [is_none |-> TRUE, keys |-> {}, trace |-> << >>] ]

\* No CoordinationFailureDetector has been constructed.
NoDetector == [state |-> "absent"]

\* No detector call has returned yet.
NotCalled == [kind |-> "not_called"]

\* A fresh ObservabilityTracer.
InitTracer ==
    /\ clock = 1
    /\ spans = << >>
    /\ root_span = NoneId
    /\ active_spans = {}
    /\ all_spans = << >>
    /\ pc = [a \in Agents |-> "idle"]
    /\ cur = [a \in Agents |-> NoneId]

\* The tracer at work: no workflow document has been analysed.
Init ==
    /\ InitTracer
    /\ workflow_doc = NoWorkflow
    /\ detector = NoDetector
    /\ returned = NotCalled

\* parent_span_id or (self.root_span.span_id if self.root_span else None)
ResolveParent(parent_span_id) ==
    IF parent_span_id # NoneId THEN parent_span_id ELSE root_span

\* Variant of the child-list append that loses the update.
AddToParent_Dropped(heap, active, id) == heap

\* if span.parent_span_id and span.parent_span_id in self.active_spans:
\*     self.active_spans[span.parent_span_id].children.append(span)
AddToParent(heap, active, id) ==
    LET p == heap[id].parent_span_id
    IN  IF p # NoneId /\ p \in active
        THEN [heap EXCEPT ![p].children = Append(@, id)]
        ELSE heap

\* ObservabilityTracer.start_root_span
StartRootSpan ==
    /\ NextId <= MaxSpans
    /\ \E now \in clock..MaxClock :
        LET id == NextId
        IN  /\ spans' = spans @@ (id :> NewSpan(id, "root", NoneId, now))
            /\ root_span' = id
            /\ active_spans' = active_spans \cup {id}
            /\ all_spans' = Append(all_spans, id)
            /\ clock' = now
    /\ UNCHANGED <<pc, cur, workflow_doc, detector, returned>>

\* ObservabilityTracer.start_span, run without interruption
StartSpan(span_type, parent_span_id) ==
    /\ NextId <= MaxSpans
    /\ \E now \in clock..MaxClock :
        LET id == NextId
            heap == spans @@ (id :> NewSpan(id, span_type,
                                            ResolveParent(parent_span_id), now))
            active == active_spans \cup {id}
        IN  /\ active_spans' = active
            /\ all_spans' = Append(all_spans, id)
            /\ spans' = AddToParent(heap, active, id)
            /\ clock' = now
    /\ UNCHANGED <<root_span, pc, cur, workflow_doc, detector, returned>>

\* ObservabilityTracer.end_span
EndSpan(span_id, status, error) ==
    /\ IF span_id \in active_spans
       THEN \E now \in clock..MaxClock :
              /\ clock' = now
              /\ spans' = [spans EXCEPT ![span_id] = SpanEnd(@, now, status, error)]
       ELSE UNCHANGED <<spans, clock>>
    /\ UNCHANGED <<root_span, active_spans, all_spans, pc, cur, workflow_doc, detector, returned>>

\* span.add_llm_details(...) on a span object the caller holds
AddLlmDetails(span_id, model, tokens_input, tokens_output, cost_usd) ==
    /\ span_id \in DOMAIN spans
    /\ spans' = [spans EXCEPT ![span_id] =
                    SpanAddLlmDetails(@, model, tokens_input, tokens_output, cost_usd)]
    /\ UNCHANGED <<clock, root_span, active_spans, all_spans, pc, cur,
                 workflow_doc, detector, returned>>

\* span.add_api_details(...)
AddApiDetails(span_id, method, url, status_code) ==
    /\ span_id \in DOMAIN spans
    /\ spans' = [spans EXCEPT ![span_id] = SpanAddApiDetails(@, method, url, status_code)]
    /\ UNCHANGED <<clock, root_span, active_spans, all_spans, pc, cur,
                 workflow_doc, detector, returned>>

\* span.add_database_details(...)
AddDatabaseDetails(span_id, operation, collection) ==
    /\ span_id \in DOMAIN spans
    /\ spans' = [spans EXCEPT ![span_id] = SpanAddDatabaseDetails(@, operation, collection)]
    /\ UNCHANGED <<clock, root_span, active_spans, all_spans, pc, cur,
                 workflow_doc, detector, returned>>

\* ----------------------------------------------------------------- queries

\* ObservabilityTracer._get_depth: the while loop, one hop per call
RECURSIVE DepthWalk(_, _)
DepthWalk(span_id, depth) ==
    IF span_id \in active_spans /\ spans[span_id].parent_span_id # NoneId
    THEN DepthWalk(spans[span_id].parent_span_id, depth + 1)
    ELSE depth

\* Variant of _get_depth with `if` in place of `while`: one hop at most.
GetDepth_OneHop(span_id) ==
    IF span_id \in active_spans /\ spans[span_id].parent_span_id # NoneId
    THEN 1 ELSE 0

GetDepth(span_id) ==
    DepthWalk(span_id, 0)

\* Span.to_dict.  The ISO-8601 rendering of a timestamp keeps microseconds,
\* finer than a tick, so a time is carried as its tick; end_time renders as
\* None when unset.
RECURSIVE ToDict(_)
ToDict(span_id) ==
    LET span == spans[span_id]
    IN  [span EXCEPT !.children = [k \in 1..Len(span.children) |-> ToDict(span.children[k])]]

\* ObservabilityTracer.get_flat_spans
GetFlatSpans ==
    [k \in 1..Len(all_spans) |->
        LET span == spans[all_spans[k]]
        IN  ToDict(span.span_id) @@
            [ depth |-> GetDepth(span.span_id),
              start_offset_ms |->
                  IF root_span # NoneId
                  THEN DurationMs(spans[root_span].start_time, span.start_time)
                  ELSE 0 ]]

\* sum(f(s) or 0 for s in self.all_spans)
RECURSIVE SumOver(_, _)
SumOver(seq, field) ==
    IF seq = << >> THEN 0
    ELSE (IF spans[Head(seq)][field] = NoneNum THEN 0 ELSE spans[Head(seq)][field])
         + SumOver(Tail(seq), field)

\* Variant of get_trace whose span count covers the root and its direct
\* children instead of the flat index.
GetTrace_DirectChildren ==
    [ trace |-> ToDict(root_span),
      total_duration_ms |-> spans[root_span].duration_ms,
      total_spans |-> 1 + Len(spans[root_span].children),
      total_tokens |-> SumOver(all_spans, "tokens_total"),
      total_cost_usd |-> SumOver(all_spans, "cost_usd") ]

\* ObservabilityTracer.get_trace (called with a root span present)
GetTrace ==
    [ trace |-> ToDict(root_span),
      total_duration_ms |-> spans[root_span].duration_ms,
      total_spans |-> Len(all_spans),
      total_tokens |-> SumOver(all_spans, "tokens_total"),
      total_cost_usd |-> SumOver(all_spans, "cost_usd") ]

\* ------------------------------------------------ start_span, step by step
\* Concurrent agents each call start_span once.  The tracer takes no lock,
\* so another agent's statements may run between any two statements of
\* start_span; each statement (a dict store, a list append) is atomic.

\* span = Span(name, span_type, parent_span_id or root, metadata)
ConcCreate(a, span_type, parent_span_id) ==
    /\ pc[a] = "idle"
    /\ \E now \in clock..MaxClock :
        LET id == NextId
        IN  /\ spans' = spans @@ (id :> NewSpan(id, span_type,
                                               ResolveParent(parent_span_id), now))
            /\ cur' = [cur EXCEPT ![a] = id]
            /\ clock' = now
    /\ pc' = [pc EXCEPT ![a] = "created"]
    /\ UNCHANGED <<root_span, active_spans, all_spans, workflow_doc, detector, returned>>

\* self.active_spans[span.span_id] = span
ConcStore(a) ==
    /\ pc[a] = "created"
    /\ active_spans' = active_spans \cup {cur[a]}
    /\ pc' = [pc EXCEPT ![a] = "stored"]
    /\ UNCHANGED <<clock, spans, root_span, all_spans, cur, workflow_doc, detector, returned>>

\* self.all_spans.append(span)
ConcIndex(a) ==
    /\ pc[a] = "stored"
    /\ all_spans' = Append(all_spans, cur[a])
    /\ pc' = [pc EXCEPT ![a] = "indexed"]
    /\ UNCHANGED <<clock, spans, root_span, active_spans, cur, workflow_doc, detector, returned>>

\* the parent test and children.append(span); return span
ConcAttach(a) ==
    /\ pc[a] = "indexed"
    /\ spans' = AddToParent(spans, active_spans, cur[a])
    /\ pc' = [pc EXCEPT ![a] = "done"]
    /\ UNCHANGED <<clock, root_span, active_spans, all_spans, cur,
                 workflow_doc, detector, returned>>

\* The workflow starts its root span before it launches the agents.
ConcStartRoot ==
    /\ \A a \in Agents : pc[a] = "idle"
    /\ StartRootSpan

AllDone == \A a \in Agents : pc[a] = "done"

\* ---------------------------------------------------------- specifications

\* Inputs of the detail setters.
ModelArgs == {"gpt-4o"}
TokenArgs == {1, 2}
CostArgs == {3}
MethodArgs == {"GET"}
UrlArgs == {"https://api.example.com/v1"}
StatusCodeArgs == {200}
OperationArgs == {"insert"}
CollectionArgs == {"runs"}

Next ==
    \/ StartRootSpan
    \/ \E t \in StartTypes, p \in active_spans \cup {NoneId, GhostId} : StartSpan(t, p)
    \/ \E i \in active_spans \cup {GhostId}, s \in SpanStatus, e \in ErrorArgs :
          EndSpan(i, s, e)

Spec == Init /\ [][Next]_vars

\* The life of span objects: construction (here through start_root_span) and
\* end_span.  Span.end reads and writes only the ended span's own status,
\* error, start_time, end_time and duration_ms, never its type or its place
\* in the tree.
NextEnd ==
    \/ StartRootSpan
    \/ \E i \in active_spans \cup {GhostId}, s \in SpanStatus, e \in ErrorArgs :
          EndSpan(i, s, e)

SpecEnd == Init /\ [][NextEnd]_vars

\* The operations that build the tree.  end_span and the detail setters read
\* and write none of root_span, active_spans, all_spans, parent_span_id and
\* children.
NextTree ==
    \/ StartRootSpan
    \/ \E t \in StartTypes, p \in active_spans \cup {NoneId, GhostId} : StartSpan(t, p)

SpecTree == Init /\ [][NextTree]_vars

\* The tracer with its detail setters and without end_span (which reads and
\* writes none of the fields the setters write).
NextDetails ==
    \/ StartRootSpan
    \/ \E t \in StartTypes, p \in active_spans \cup {NoneId} : StartSpan(t, p)
    \/ \E i \in DOMAIN spans, m \in ModelArgs, ti \in TokenArgs, to \in TokenArgs,
          c \in CostArgs : AddLlmDetails(i, m, ti, to, c)
    \/ \E i \in DOMAIN spans, m \in MethodArgs, u \in UrlArgs, sc \in StatusCodeArgs :
          AddApiDetails(i, m, u, sc)
    \/ \E i \in DOMAIN spans, o \in OperationArgs, c \in CollectionArgs :
          AddDatabaseDetails(i, o, c)

SpecDetails == Init /\ [][NextDetails]_vars

\* Agents registering spans concurrently.
NextConc ==
    \/ ConcStartRoot
    \/ \E a \in Agents, t \in StartTypes, p \in active_spans \cup {NoneId} :
          ConcCreate(a, t, p)
    \/ \E a \in Agents : ConcStore(a)
    \/ \E a \in Agents : ConcIndex(a)
    \/ \E a \in Agents : ConcAttach(a)

SpecConc == Init /\ [][NextConc]_vars

\* The operations that decide what get_trace aggregates: the two start
\* operations build the flat index and the child lists, add_llm_details is
\* the one operation that writes tokens_total and cost_usd.  Neither reads
\* the span type, so two types stand for all.
AggregateTypes == {"agent", "llm_call"}

NextAggregates ==
    \/ StartRootSpan
    \/ \E t \in AggregateTypes, p \in active_spans \cup {NoneId, GhostId} : StartSpan(t, p)
    \/ \E i \in DOMAIN spans, m \in ModelArgs, ti \in TokenArgs, to \in TokenArgs,
          c \in CostArgs : AddLlmDetails(i, m, ti, to, c)

SpecAggregates == Init /\ [][NextAggregates]_vars

\* =================================================================
\* The coordination failure detector of
\* backend/coordination_failure_detector.py.
\*
\* It reads a workflow document whose detailed_trace is what get_trace
\* returned: {"trace": <nested span dicts>, "total_spans": ...}.  A dict is a
\* record; d.get(k, default) of a key the dict lacks and of a key that holds
\* the default read the same, so an absent key is carried as its default
\* ("" for a name, 0 for a number, None for the rest).
\*
\* ------------------------------------------------------------- Python str
\* A str that the detector searches (span names, workflow types, input and
\* output text) is the sequence of its pieces: words, " ", ".", "_", "/",
\* and the prefix "/api/".  Concatenating the pieces gives the text, so
\* `x in y` is "x is a contiguous run of y", and the pieces used below are
\* chosen so that no piece has another word inside it.  "" is << >>.

\* str.lower(), piece by piece
LowerAtom(a) ==
    CASE a = "Social" -> "social"
      [] a = "Media" -> "media"
      [] a = "Debate" -> "debate"
      [] a = "Twitter" -> "twitter"
      [] a = "Based" -> "based"
      [] a = "Survey" -> "survey"
      [] a = "None" -> "none"
      [] OTHER -> a

Lower(s) == [k \in 1..Len(s) |-> LowerAtom(s[k])]

\* len() of one piece
AtomLen(a) ==
    CASE a \in {" ", ".", "_", "/", "-", "s", "1"} -> 1
      [] a \in {"on", "is", "to", "vs"} -> 2
      [] a \in {"the", "run", "ter", "ner"} -> 3
      [] a \in {"data", "chat", "fake", "will", "None", "none", "plan", "user", "type"} -> 4
      [] a \in {"/api/", "based", "Based", "agent", "Media", "media", "magic", "sales"} -> 5
      [] a \in {"survey", "Survey", "annual", "report", "debate", "Debate", "Social",
                "social", "should", "writer", "helper", "faulty", "tester"} -> 6
      [] a \in {"twitter", "Twitter", "content", "hashtag", "results", "figures"} -> 7
      [] a \in {"workflow", "research", "analysis", "analyzer", "linkedin", "facebook"} -> 8
      [] a \in {"quarterly", "according", "generator", "instagram", "collector"} -> 9
      [] a \in {"strategist", "multiagent"} -> 10

\* len(s)
RECURSIVE StrLen(_)
StrLen(s) == IF s = << >> THEN 0 ELSE AtomLen(Head(s)) + StrLen(Tail(s))

\* sub in s
Contains(s, sub) ==
    \E k \in 0..(Len(s) - Len(sub)) : SubSeq(s, k + 1, k + Len(sub)) = sub

\* s.startswith(prefix)
StartsWith(s, prefix) ==
    Len(prefix) <= Len(s) /\ SubSeq(s, 1, Len(prefix)) = prefix

\* s.split(sep) for a one-piece separator: the runs between separators, the
\* empty ones included
RECURSIVE Split(_, _)
Split(s, sep) ==
    IF \A k \in 1..Len(s) : s[k] # sep
    THEN <<s>>
    ELSE LET k == CHOOSE i \in 1..Len(s) :
                      s[i] = sep /\ \A j \in 1..(i - 1) : s[j] # sep
         IN  <<SubSeq(s, 1, k - 1)>> \o Split(SubSeq(s, k + 1, Len(s)), sep)

NonEmpty(w) == w # << >>

\* s.split(): the words between runs of whitespace
SplitWords(s) == SelectSeq(Split(s, " "), NonEmpty)

\* s.strip()
RECURSIVE Strip(_)
Strip(s) ==
    IF s = << >> THEN s
    ELSE IF Head(s) = " " THEN Strip(Tail(s))
    ELSE IF s[Len(s)] = " " THEN Strip(SubSeq(s, 1, Len(s) - 1))
    ELSE s

\* The pieces outside the character class [a-zA-Z0-9_/-] of the endpoint
\* pattern, and the pieces inside it that are no run of letters.
Separators == {" ", "."}
Symbols == {"/api/", "/", "-", "_", "1"}

PathAtom(a) == a \notin Separators
NotDot(a) == a # "."
IdentAtom(a) == a = "_" \/ a \notin (Separators \cup Symbols)

\* Last index of the longest run of pieces that satisfy In, starting at k
\* (k - 1 when s[k] does not satisfy it): what a greedy `[...]+` consumes.
RunEnd(s, k, In(_)) ==
    CHOOSE e \in (k - 1)..Len(s) :
        /\ \A j \in k..e : In(s[j])
        /\ e = Len(s) \/ ~In(s[e + 1])

\* re.findall(r'/api/[a-zA-Z0-9_/-]+', s), scanning from index k
RECURSIVE FindApiReferences(_, _)
FindApiReferences(s, k) ==
    IF k > Len(s) THEN << >>
    ELSE IF s[k] = "/api/" /\ RunEnd(s, k + 1, PathAtom) > k
         THEN LET e == RunEnd(s, k + 1, PathAtom)
              IN  <<SubSeq(s, k, e)>> \o FindApiReferences(s, e + 1)
         ELSE FindApiReferences(s, k + 1)

\* re.findall(r'based on ([^.]+)', s, re.IGNORECASE), scanning from index k
RECURSIVE FindBasedOn(_, _)
FindBasedOn(s, k) ==
    IF k > Len(s) THEN << >>
    ELSE IF /\ k + 3 <= Len(s)
            /\ Lower(SubSeq(s, k, k + 3)) = <<"based", " ", "on", " ">>
            /\ RunEnd(s, k + 4, NotDot) > k + 3
         THEN LET e == RunEnd(s, k + 4, NotDot)
              IN  <<SubSeq(s, k + 4, e)>> \o FindBasedOn(s, e + 1)
         ELSE FindBasedOn(s, k + 1)

\* re.findall(r'\b([a-z_]+_[a-z_]+)\b', s) on lowered text, scanning from
\* index k: the runs of letters and underscores with an underscore inside
\* (no run of the texts used here touches a digit).
RECURSIVE FindIdentifiers(_, _)
FindIdentifiers(s, k) ==
    IF k > Len(s) THEN << >>
    ELSE IF IdentAtom(s[k])
         THEN LET e == RunEnd(s, k, IdentAtom)
                  run == SubSeq(s, k, e)
              IN  (IF \E j \in 2..(Len(run) - 1) : run[j] = "_"
                   THEN <<run>> ELSE << >>)
                  \o FindIdentifiers(s, e + 1)
         ELSE FindIdentifiers(s, k + 1)

\* The elements of a sequence, and a set laid out as a list.
Range(seq) == {seq[k] : k \in 1..Len(seq)}

RECURSIVE SetToList(_)
SetToList(S) ==
    IF S = {} THEN << >>
    ELSE LET x == CHOOSE y \in S : TRUE IN <<x>> \o SetToList(S \ {x})

\* Concatenation of a sequence of sequences.
RECURSIVE Flatten(_)
Flatten(seqs) == IF seqs = << >> THEN << >> ELSE Head(seqs) \o Flatten(Tail(seqs))

\* ------------------------------------------------------------- span dicts
\* str(None), which str(span.get("output", "")) gives for an unset output
NoneStr == <<"None">>

\* One span of a trace as Span.to_dict serialises it, with the keys the
\* detector reads.  input and output are carried as str() renders them;
\* start_time is the ISO-8601 text, whose order is the order of the instants,
\* carried as the instant.
SpanDict(span_id, name, span_type) ==
    [ span_id |-> span_id,
      name |-> name,
      span_type |-> span_type,
      status |-> "success",
      error |-> None,
      model |-> None,
      tokens_input |-> NoneNum,
      tokens_output |-> NoneNum,
      tokens_total |-> NoneNum,
      duration_ms |-> 1,
      start_time |-> span_id,
      metadata |-> [workflow_type |-> << >>],
      input |-> NoneStr,
      output |-> NoneStr,
      children |-> << >> ]

\* bool(x) of a number or None
NumTruthy(x) == x # NoneNum /\ x # 0

\* str(metadata): the dict's keys and values in braces
StrOfMetadata(metadata) ==
    IF metadata.workflow_type = << >>
    THEN <<"{", "}">>
    ELSE <<"{", "'", "workflow", "_", "type", "'", ":", " ", "'">>
         \o metadata.workflow_type \o <<"'", "}">>

\* ------------------------------------------- CoordinationFailureDetector

BASE_VALID_MODELS == {"claude-4-sonnet-20250514", "claude-sonnet-4", "gpt-4", "gpt-3.5-turbo"}
DEBATE_WORKFLOW_MODELS == {"sonar", "sonar-small-chat", "sonar-medium-chat", "sonar-pro"}
SOCIAL_MEDIA_WORKFLOW_MODELS == {}
VALID_SPAN_TYPES == {"root", "agent", "llm_call", "api_call", "database", "tool", "retrieval"}

\* The workflow types _detect_workflow_type names itself.
SocialMedia == <<"social", "_", "media">>
Debate == <<"debate">>
Unknown == <<"unknown">>

\* The span names the detector knows.
ContentStrategist == <<"content", "_", "strategist">>
SocialMediaWorkflow == <<"social", "_", "media", "_", "workflow">>

\* self.trace.get("trace", {}): the root span dict, {} when the key is
\* absent.  (A key that holds None gives None: see NewDetector.)
RootSpanOf(trace) ==
    IF "trace" \in trace.keys /\ trace.trace # << >>
    THEN trace.trace[1]
    ELSE SpanDict(NoneId, << >>, None)

\* the loop over the root's children in _detect_workflow_type, from child k
RECURSIVE ChildrenWorkflowType(_, _)
ChildrenWorkflowType(children, k) ==
    IF k > Len(children) THEN Unknown
    ELSE LET child_name == Lower(children[k].name)
         IN  IF \/ Contains(child_name, <<"research", "_", "agent">>)
                \/ Contains(child_name, <<"debate", "_", "agent">>)
             THEN Debate
             ELSE IF \E platform \in {"twitter", "linkedin", "instagram",
                                      "facebook", "hashtag"} :
                         Contains(child_name, <<platform>>)
                  THEN SocialMedia
                  ELSE ChildrenWorkflowType(children, k + 1)

\* Variant of _detect_workflow_type that reads the metadata before the name.
DetectWorkflowType_MetadataFirst(trace) ==
    LET root == RootSpanOf(trace)
        root_name == root.name
        workflow_type == root.metadata.workflow_type
    IN  IF workflow_type # << >> THEN workflow_type
        ELSE IF Contains(Lower(root_name), SocialMedia) THEN SocialMedia
        ELSE IF Contains(Lower(root_name), Debate) THEN Debate
        ELSE ChildrenWorkflowType(root.children, 1)

\* CoordinationFailureDetector._detect_workflow_type
DetectWorkflowType(trace) ==
    LET root == RootSpanOf(trace)
        root_name == root.name
        workflow_type == root.metadata.workflow_type
    IN  IF Contains(Lower(root_name), SocialMedia) THEN SocialMedia
        ELSE IF Contains(Lower(root_name), Debate) THEN Debate
        ELSE IF workflow_type # << >> THEN workflow_type
        ELSE ChildrenWorkflowType(root.children, 1)

\* CoordinationFailureDetector._get_valid_models_for_workflow
GetValidModelsForWorkflow(workflow_type) ==
    IF workflow_type = Debate
    THEN BASE_VALID_MODELS \cup DEBATE_WORKFLOW_MODELS
    ELSE IF workflow_type = SocialMedia
    THEN BASE_VALID_MODELS \cup SOCIAL_MEDIA_WORKFLOW_MODELS
    ELSE BASE_VALID_MODELS

\* CoordinationFailureDetector._flatten_spans: appends {**span,
\* "parent_span": parent_span} to the list acc and recurses into the
\* children.  parent_span refers to the parent's entry of the list; it is
\* carried as that entry's index, 0 for None.
RECURSIVE FlattenSpans(_, _, _)
RECURSIVE FlattenChildren(_, _, _, _)
FlattenSpans(span, parent_span, acc) ==
    FlattenChildren(span.children, 1, Len(acc) + 1,
                    Append(acc, span @@ [parent_span |-> parent_span]))

FlattenChildren(children, k, parent_span, acc) ==
    IF k > Len(children) THEN acc
    ELSE FlattenChildren(children, k + 1, parent_span,
                         FlattenSpans(children[k], parent_span, acc))

\* CoordinationFailureDetector.__init__.  The result is the new object, or
\* the exception the constructor raises: with "trace" holding None,
\* _detect_workflow_type calls .get on None.
NewDetector(trace_data, workflow_data) ==
    IF "trace" \in trace_data.keys /\ trace_data.trace = << >>
    THEN [raised |-> "AttributeError"]
    ELSE LET workflow_type == DetectWorkflowType(trace_data)
         IN  [ raised |-> None,
               self |->
                 [ state |-> "constructed",
                   trace |-> trace_data,
                   workflow |-> workflow_data,
                   all_spans |->
                       IF "trace" \in trace_data.keys
                       THEN FlattenSpans(trace_data.trace[1], 0, << >>)
                       ELSE << >>,
                   detection_results |->
                       [ run_id |-> workflow_data.run_id,
                         has_failures |-> FALSE,
                         failure_count |-> 0,
                         failures |-> << >>,
                         summary |-> << >> ],
                   workflow_type |-> workflow_type,
                   valid_models |-> GetValidModelsForWorkflow(workflow_type) ] ]

\* One entry of detection_results["failures"].  The message is text
\* formatted from the evidence and is left out.
Failure(type, subtype, severity, span, evidence) ==
    [ type |-> type,
      subtype |-> subtype,
      severity |-> severity,
      span_id |-> span.span_id,
      span_name |-> span.name,
      evidence |-> evidence ]

\* CoordinationFailureDetector._is_valid_api
IsValidApi(api_path) ==
    \E valid \in { <<"/api/", "chat">>, <<"/api/", "run", "s">>,
                   <<"/api/", "run", "/">>, <<"/api/", "event">>,
                   <<"/api/", "step", "/">>, <<"/api/", "summary", "/">>,
                   <<"/api/", "ingest-sample">> } :
        StartsWith(api_path, valid)

\* CoordinationFailureDetector._extract_field_references: list(set(...)),
\* in the set's iteration order
ExtractFieldReferences(text) ==
    SetToList(Range(FindIdentifiers(Lower(text), 1)))

\* CoordinationFailureDetector._field_exists_in_trace
FieldExistsInTrace(self, field) ==
    \E k \in 1..Len(self.all_spans) :
        \/ Contains(Lower(StrOfMetadata(self.all_spans[k].metadata)), field)
        \/ Contains(Lower(self.all_spans[k].input), field)

IsClaim(sentence) ==
    /\ StrLen(sentence) > 20
    /\ \/ Contains(sentence, <<"is", " ">>)
       \/ Contains(sentence, <<"will", " ">>)
       \/ Contains(sentence, <<"should", " ">>)

\* CoordinationFailureDetector._extract_claims
ExtractClaims(text) ==
    LET sentences == Split(text, ".")
        first == SubSeq(sentences, 1, IF Len(sentences) < 5 THEN Len(sentences) ELSE 5)
        claims == SelectSeq(first, IsClaim)
    IN  [k \in 1..Len(claims) |-> Strip(claims[k])]

IsKeyTerm(w) == StrLen(w) > 4

\* CoordinationFailureDetector._claim_verifiable
ClaimVerifiable(claim, parent_output, input_data) ==
    LET words == SplitWords(Lower(claim))
        long == SelectSeq(words, IsKeyTerm)
        key_terms == SubSeq(long, 1, IF Len(long) < 3 THEN Len(long) ELSE 3)
        combined_context == Lower(parent_output \o <<" ">> \o input_data)
        matches == Cardinality({k \in 1..Len(key_terms) :
                                   Contains(combined_context, key_terms[k])})
    IN  IF key_terms = << >> THEN TRUE ELSE 2 * matches >= Len(key_terms)

IsSignificant(w) ==
    /\ StrLen(w) > 3
    /\ w \notin {<<"the">>, <<"this">>, <<"that">>, <<"with">>, <<"from">>, <<"data">>}

\* CoordinationFailureDetector._reference_exists_in_trace
ReferenceExistsInTrace(self, reference) ==
    LET ref_lower == Strip(Lower(reference))
        words == SelectSeq(SplitWords(ref_lower), IsSignificant)
    IN  IF Len(words) < 2 THEN TRUE
        ELSE \E k \in 1..Len(self.all_spans) :
                LET span_output == Lower(self.all_spans[k].output)
                    span_input == Lower(self.all_spans[k].input)
                    matches_in_output ==
                        Cardinality({j \in 1..Len(words) : Contains(span_output, words[j])})
                    matches_in_input ==
                        Cardinality({j \in 1..Len(words) : Contains(span_input, words[j])})
                IN  matches_in_output >= 2 \/ matches_in_input >= 2

\* --- pass 1
\* The loop variables of _detect_hallucinations.
NoHallucinations ==
    [hallucinations |-> << >>, detected_apis |-> {}, detected_fields |-> {}]

\* Check 3 for one span: the loop over api_references
RECURSIVE InventedApis(_, _, _)
InventedApis(span, api_references, st) ==
    IF api_references = << >> THEN st
    ELSE LET api_ref == Head(api_references)
         IN  InventedApis(span, Tail(api_references),
                 IF ~IsValidApi(api_ref) /\ api_ref \notin st.detected_apis
                 THEN [st EXCEPT
                         !.detected_apis = @ \cup {api_ref},
                         !.hallucinations = Append(@,
                             Failure("hallucination", "invented_api", "high", span,
                                     [ claimed_api |-> api_ref,
                                       found_in |-> "output",
                                       first_detected_in_span |-> span.name ]))]
                 ELSE st)

\* Check 4 for one agent span: the loop over claimed_fields
RECURSIVE InventedFields(_, _, _, _)
InventedFields(self, span, claimed_fields, st) ==
    IF claimed_fields = << >> THEN st
    ELSE LET field == Head(claimed_fields)
         IN  InventedFields(self, span, Tail(claimed_fields),
                 IF ~FieldExistsInTrace(self, field) /\ field \notin st.detected_fields
                 THEN [st EXCEPT
                         !.detected_fields = @ \cup {field},
                         !.hallucinations = Append(@,
                             Failure("hallucination", "invented_field", "medium", span,
                                     [claimed_field |-> field]))]
                 ELSE st)

\* the body of the loop over self.all_spans, for one span
HallucinationsOfSpan(self, span, st) ==
    LET model == span.model
        output_data == span.output
        check1 == IF Truthy(model) /\ model \notin self.valid_models
                  THEN << Failure("hallucination", "invalid_model", "high", span,
                                  [ claimed_model |-> model,
                                    workflow_type |-> self.workflow_type,
                                    valid_models_for_workflow |-> self.valid_models ]) >>
                  ELSE << >>
        check2 == IF Truthy(span.span_type) /\ span.span_type \notin VALID_SPAN_TYPES
                  THEN << Failure("hallucination", "invalid_span_type", "medium", span,
                                  [ claimed_type |-> span.span_type,
                                    valid_types |-> VALID_SPAN_TYPES ]) >>
                  ELSE << >>
        st2 == [st EXCEPT !.hallucinations = @ \o check1 \o check2]
        st3 == InventedApis(span, FindApiReferences(output_data, 1), st2)
    IN  IF span.span_type = "agent"
        THEN InventedFields(self, span, ExtractFieldReferences(output_data), st3)
        ELSE st3

RECURSIVE HallucinationsFrom(_, _, _)
HallucinationsFrom(self, k, st) ==
    IF k > Len(self.all_spans) THEN st
    ELSE HallucinationsFrom(self, k + 1,
                            HallucinationsOfSpan(self, self.all_spans[k], st))

\* CoordinationFailureDetector._detect_hallucinations: the records it
\* extends detection_results["failures"] with
DetectHallucinations(self) ==
    HallucinationsFrom(self, 1, NoHallucinations).hallucinations

\* --- pass 2
\* tokens_in + tokens_out with a None operand, and a comparison of durations
\* with a None operand, raise TypeError.
LogicRaises(self, span) ==
    \/ /\ NumTruthy(span.tokens_total)
       /\ span.tokens_input = NoneNum \/ span.tokens_output = NoneNum
    \/ /\ span.parent_span # 0
       /\ \/ span.duration_ms = NoneNum
          \/ self.all_spans[span.parent_span].duration_ms = NoneNum

\* the body of the loop over self.all_spans, for one span that raises nothing
InconsistenciesOfSpan(self, span) ==
    LET status == span.status
        error == span.error
        tokens_in == span.tokens_input
        tokens_out == span.tokens_output
        tokens_total == span.tokens_total
        parent == span.parent_span
    IN  (IF status = "success" /\ Truthy(error)
         THEN << Failure("logical_inconsistency", "status_error_mismatch", "high", span,
                         [status |-> status, error |-> error]) >>
         ELSE << >>)
        \o
        (IF status = "error" /\ ~Truthy(error)
         THEN << Failure("logical_inconsistency", "missing_error_details", "medium", span,
                         [status |-> status]) >>
         ELSE << >>)
        \o
        (IF NumTruthy(tokens_total) /\ tokens_in + tokens_out # tokens_total
         THEN << Failure("logical_inconsistency", "token_count_mismatch", "low", span,
                         [ tokens_input |-> tokens_in,
                           tokens_output |-> tokens_out,
                           tokens_total |-> tokens_total,
                           expected_total |-> tokens_in + tokens_out ]) >>
         ELSE << >>)
        \o
        (IF parent # 0 /\ span.duration_ms > self.all_spans[parent].duration_ms
         THEN << Failure("logical_inconsistency", "duration_inconsistency", "medium", span,
                         [ child_duration_ms |-> span.duration_ms,
                           parent_duration_ms |-> self.all_spans[parent].duration_ms,
                           parent_span |-> self.all_spans[parent].span_id ]) >>
         ELSE << >>)

\* CoordinationFailureDetector._detect_logical_inconsistencies: the
\* exception it raises, or the records it extends the failures with
DetectLogicalInconsistencies(self) ==
    IF \E k \in 1..Len(self.all_spans) : LogicRaises(self, self.all_spans[k])
    THEN [raised |-> "TypeError", found |-> << >>]
    ELSE [ raised |-> None,
           found |-> Flatten([k \in 1..Len(self.all_spans) |->
                                 InconsistenciesOfSpan(self, self.all_spans[k])]) ]

\* --- pass 3
NoMissingContext == [missing_context |-> << >>, detected_references |-> {}]

\* Check 1 for one agent span with a parent: the loop over claims
UnverifiableClaims(self, span) ==
    LET parent == self.all_spans[span.parent_span]
        claims == ExtractClaims(span.output)
        unverifiable(claim) == ~ClaimVerifiable(claim, parent.output, span.input)
        flagged == SelectSeq(claims, unverifiable)
    IN  [k \in 1..Len(flagged) |->
            Failure("missing_context", "unverifiable_claim", "medium", span,
                    [claim |-> flagged[k], parent_span |-> parent.span_id])]

\* Check 2 for one agent span: the loop over references
RECURSIVE MissingReferences(_, _, _, _)
MissingReferences(self, span, references, st) ==
    IF references = << >> THEN st
    ELSE LET ref == Head(references)
             ref_clean == Lower(Strip(ref))
         IN  MissingReferences(self, span, Tail(references),
                 IF /\ ~ReferenceExistsInTrace(self, ref)
                    /\ ref_clean \notin st.detected_references
                 THEN [st EXCEPT
                         !.detected_references = @ \cup {ref_clean},
                         !.missing_context = Append(@,
                             Failure("missing_context", "missing_reference", "high", span,
                                     [reference |-> ref]))]
                 ELSE st)

\* the body of the loop over self.all_spans, for one span
MissingContextOfSpan(self, span, st) ==
    LET output_data == span.output
        st1 == IF span.span_type = "agent" /\ span.parent_span # 0
               THEN [st EXCEPT !.missing_context = @ \o UnverifiableClaims(self, span)]
               ELSE st
    IN  IF /\ span.span_type = "agent"
           /\ \/ Contains(Lower(output_data), <<"based", " ", "on">>)
              \/ Contains(Lower(output_data), <<"according", " ", "to">>)
        THEN MissingReferences(self, span, FindBasedOn(output_data, 1), st1)
        ELSE st1

RECURSIVE MissingContextFrom(_, _, _)
MissingContextFrom(self, k, st) ==
    IF k > Len(self.all_spans) THEN st
    ELSE MissingContextFrom(self, k + 1,
                            MissingContextOfSpan(self, self.all_spans[k], st))

\* CoordinationFailureDetector._detect_missing_context: the records it
\* extends the failures with
DetectMissingContext(self) ==
    MissingContextFrom(self, 1, NoMissingContext).missing_context

\* --- pass 4
\* The contract tables of _detect_contract_violations.  A dict is a function
\* of its keys; {} has none.
social_media_contracts ==
    [ content_strategist |->
          [ must_run_first |-> TRUE,
            required_output_fields |-> <<"strategy", "target_audience", "tone">>,
            max_duration_ms |-> 30000 ],
      platform_writers |->
          [ agent_names |-> << <<"twitter", "_", "writer">>, <<"linkedin", "_", "writer">>,
                               <<"instagram", "_", "writer">>, <<"facebook", "_", "writer">> >>,
            must_have_parent |-> SocialMediaWorkflow,
            required_input_from |-> ContentStrategist ],
      hashtag_generator |->
          [ must_run_after |-> << <<"twitter", "_", "writer">>, <<"linkedin", "_", "writer">>,
                                  <<"instagram", "_", "writer">>, <<"facebook", "_", "writer">> >>,
            max_duration_ms |-> 15000 ] ]

test_faulty_contracts ==
    [ analyzer |->
          [ must_run_first |-> TRUE,
            must_have_parent |-> <<"faulty", "_", "analysis", "_", "workflow">>,
            max_duration_ms |-> 5000 ],
      data_collector |->
          [ must_have_parent |-> <<"faulty", "_", "analysis", "_", "workflow">>,
            max_duration_ms |-> 10000 ],
      reporter |->
          [ must_have_parent |-> <<"faulty", "_", "analysis", "_", "workflow">>,
            must_run_after |-> << <<"analyzer">>, <<"data", "_", "collector">> >>,
            max_duration_ms |-> 3000 ] ]

TestFaultyMultiagent == <<"test", "_", "faulty", "_", "multiagent">>

\* Select contracts based on workflow type
ContractsFor(workflow_type) ==
    IF workflow_type = SocialMedia THEN social_media_contracts
    ELSE IF workflow_type = TestFaultyMultiagent THEN test_faulty_contracts
    ELSE << >>

\* next((s for s in self.all_spans if s.get("name") == name), None), as an
\* index of the list, 0 for None
FirstNamed(self, name) ==
    IF \E k \in 1..Len(self.all_spans) : self.all_spans[k].name = name
    THEN CHOOSE k \in 1..Len(self.all_spans) :
             /\ self.all_spans[k].name = name
             /\ \A j \in 1..(k - 1) : self.all_spans[j].name # name
    ELSE 0

\* min(agent_spans, key=start_time): the first agent span of the list among
\* those that start earliest, as an index of the list (there is an agent span)
FirstAgent(self) ==
    LET agent_spans == {k \in 1..Len(self.all_spans) : self.all_spans[k].span_type = "agent"}
        earliest == {k \in agent_spans :
                        \A j \in agent_spans :
                            self.all_spans[k].start_time <= self.all_spans[j].start_time}
    IN  CHOOSE k \in earliest : \A j \in earliest : k <= j

\* Contract 1: content_strategist runs first
ExecutionOrderViolations(self) ==
    LET strategist_span == FirstNamed(self, ContentStrategist)
    IN  IF /\ strategist_span # 0
           /\ \E k \in 1..Len(self.all_spans) : self.all_spans[k].span_type = "agent"
           /\ self.all_spans[FirstAgent(self)].name # ContentStrategist
        THEN << [ type |-> "contract_violation",
                  subtype |-> "execution_order",
                  severity |-> "high",
                  span_id |-> self.all_spans[strategist_span].span_id,
                  span_name |-> ContentStrategist,
                  evidence |->
                      [ first_agent |-> self.all_spans[FirstAgent(self)].name,
                        contract |-> "content_strategist.must_run_first" ] ] >>
        ELSE << >>

\* Contract 2 for one writer name
WrongParentViolations(self, writer_name) ==
    LET writer_span == FirstNamed(self, writer_name)
        parent == IF writer_span = 0 THEN 0 ELSE self.all_spans[writer_span].parent_span
    IN  IF /\ writer_span # 0
           /\ parent = 0 \/ self.all_spans[parent].name # SocialMediaWorkflow
        THEN << [ type |-> "contract_violation",
                  subtype |-> "wrong_parent",
                  severity |-> "high",
                  span_id |-> self.all_spans[writer_span].span_id,
                  span_name |-> writer_name,
                  evidence |->
                      [ actual_parent |-> IF parent # 0 THEN self.all_spans[parent].name
                                          ELSE <<"none">>,
                        expected_parent |-> SocialMediaWorkflow ] ] >>
        ELSE << >>

\* Contract 3 for one span
DurationViolations(contracts, span) ==
    IF /\ span.name = ContentStrategist
       /\ span.duration_ms > contracts.content_strategist.max_duration_ms
    THEN << Failure("contract_violation", "duration_exceeded", "low", span,
                    [ duration_ms |-> span.duration_ms,
                      max_allowed_ms |-> contracts.content_strategist.max_duration_ms ]) >>
    ELSE << >>

\* CoordinationFailureDetector._detect_contract_violations: the exception it
\* raises, or the records it extends the failures with.  The loop of
\* contract 2 subscripts contracts["platform_writers"], and contract 3
\* subscripts contracts["content_strategist"] and compares the duration of a
\* span of that name with a number.
DetectContractViolations(self) ==
    LET contracts == ContractsFor(self.workflow_type)
        spans_ == self.all_spans
    IN  IF "platform_writers" \notin DOMAIN contracts
        THEN [raised |-> "KeyError", found |-> << >>]
        ELSE IF \E k \in 1..Len(spans_) :
                    /\ spans_[k].name = ContentStrategist
                    /\ "content_strategist" \notin DOMAIN contracts
        THEN [raised |-> "KeyError", found |-> << >>]
        ELSE IF \E k \in 1..Len(spans_) :
                    /\ spans_[k].name = ContentStrategist
                    /\ spans_[k].duration_ms = NoneNum
        THEN [raised |-> "TypeError", found |-> << >>]
        ELSE [ raised |-> None,
               found |->
                   ExecutionOrderViolations(self)
                   \o Flatten([k \in 1..Len(contracts.platform_writers.agent_names) |->
                         WrongParentViolations(self, contracts.platform_writers.agent_names[k])])
                   \o Flatten([k \in 1..Len(spans_) |->
                         DurationViolations(contracts, spans_[k])]) ]

\* --- summary and detect_all
\* Variant of _calculate_health_score without the lower clamp.
CalculateHealthScore_NoFloor(severity_counts) ==
    LET score == 100 - severity_counts.high * 15
                     - severity_counts.medium * 5
                     - severity_counts.low * 1
    IN  IF score > 100 THEN 100 ELSE score

\* Variant of the bookkeeping after a pass that leaves failure_count alone.
Extend_CountStale(detection_results, found) ==
    [detection_results EXCEPT
        !.failures = @ \o found,
        !.has_failures = @ \/ found # << >>]

\* CoordinationFailureDetector._calculate_health_score
CalculateHealthScore(severity_counts) ==
    LET score == 100 - severity_counts.high * 15
                     - severity_counts.medium * 5
                     - severity_counts.low * 1
        capped == IF score > 100 THEN 100 ELSE score
    IN  IF capped < 0 THEN 0 ELSE capped

\* CoordinationFailureDetector._generate_summary
GenerateSummary(detection_results) ==
    LET failures == detection_results.failures
        types == {failures[k].type : k \in 1..Len(failures)}
        failures_by_type ==
            [t \in types |-> Cardinality({k \in 1..Len(failures) : failures[k].type = t})]
        failures_by_severity ==
            [s \in {"high", "medium", "low"} |->
                Cardinality({k \in 1..Len(failures) : failures[k].severity = s})]
    IN  [ total_failures |-> detection_results.failure_count,
          by_type |-> failures_by_type,
          by_severity |-> failures_by_severity,
          critical_issues |-> failures_by_severity.high,
          health_score |-> CalculateHealthScore(failures_by_severity) ]

\* failures.extend(found); failure_count += len(found); has_failures set
\* when found is not empty
Extend(detection_results, found) ==
    [detection_results EXCEPT
        !.failures = @ \o found,
        !.failure_count = @ + Len(found),
        !.has_failures = @ \/ found # << >>]

\* What a call leaves behind.
Raised(exception) == [kind |-> "raised", exception |-> exception]
ReturnedNone == [kind |-> "None"]
Returned(report) == [kind |-> "report", report |-> report]

\* CoordinationFailureDetector.detect_all: the four passes in order, each
\* extending self.detection_results when it ends, then the summary.  A pass
\* that raises ends the call; what earlier passes recorded stays in the
\* object.  The result is the object after the call and what the call
\* returned or raised.
DetectAll(self) ==
    LET r1 == Extend(self.detection_results, DetectHallucinations(self))
        logic == DetectLogicalInconsistencies(self)
        r2 == Extend(r1, logic.found)
        r3 == Extend(r2, DetectMissingContext(self))
        contract == DetectContractViolations(self)
        r4 == Extend(r3, contract.found)
        r5 == [r4 EXCEPT !.summary = GenerateSummary(r4)]
    IN  IF logic.raised # None
        THEN [self |-> [self EXCEPT !.detection_results = r1],
              outcome |-> Raised(logic.raised)]
        ELSE IF contract.raised # None
        THEN [self |-> [self EXCEPT !.detection_results = r3],
              outcome |-> Raised(contract.raised)]
        ELSE [self |-> [self EXCEPT !.detection_results = r5],
              outcome |-> Returned(r5)]

\* bool(detailed_trace): None and {} are falsy
TruthyDict(d) == ~d.is_none /\ d.keys # {}

\* analyze_workflow_coordination(workflow_doc): what it returns or raises
AnalyzeWorkflowCoordination(workflow_doc_) ==
    LET detailed_trace == workflow_doc_.detailed_trace
        new == NewDetector(detailed_trace, workflow_doc_)
    IN  IF ~TruthyDict(detailed_trace) THEN ReturnedNone
        ELSE IF new.raised # None THEN Raised(new.raised)
        ELSE DetectAll(new.self).outcome

\* ---------------------------------------------------------- detector calls

\* result = analyze_workflow_coordination(workflow_doc); the detector it
\* builds is local to the call
Analyze ==
    /\ returned.kind = "not_called"
    /\ detector.state = "absent"
    /\ returned' = AnalyzeWorkflowCoordination(workflow_doc)
    /\ UNCHANGED <<clock, spans, root_span, active_spans, all_spans, pc, cur,
                   workflow_doc, detector>>

\* detector = CoordinationFailureDetector(detailed_trace, workflow_doc), by a
\* caller that holds a detailed_trace
Construct ==
    /\ returned.kind = "not_called"
    /\ detector.state = "absent"
    /\ ~workflow_doc.detailed_trace.is_none
    /\ LET new == NewDetector(workflow_doc.detailed_trace, workflow_doc)
       IN  IF new.raised # None
           THEN returned' = Raised(new.raised) /\ UNCHANGED detector
           ELSE detector' = new.self /\ UNCHANGED returned
    /\ UNCHANGED <<clock, spans, root_span, active_spans, all_spans, pc, cur,
                   workflow_doc>>

\* results = detector.detect_all()
CallDetectAll ==
    /\ returned.kind = "not_called"
    /\ detector.state = "constructed"
    /\ LET done == DetectAll(detector)
       IN  detector' = done.self /\ returned' = done.outcome
    /\ UNCHANGED <<clock, spans, root_span, active_spans, all_spans, pc, cur,
                   workflow_doc>>

MaxCount == 7        \* failures of one severity handed to _calculate_health_score
MaxRecorded == 4     \* failures a detector may hold when detect_all is run again

\* What a call of _calculate_health_score leaves behind.
Scored(severity_counts, score) ==
    [kind |-> "score", severity_counts |-> severity_counts, score |-> score]

\* detector._calculate_health_score(severity_counts), with the counts per
\* severity that _generate_summary hands it
CallCalculateHealthScore ==
    /\ detector.state = "constructed"
    /\ returned.kind = "not_called"
    /\ \E high \in 0..MaxCount, medium \in 0..MaxCount, low \in 0..MaxCount :
          LET severity_counts == [high |-> high, medium |-> medium, low |-> low]
          IN  returned' = Scored(severity_counts, CalculateHealthScore(severity_counts))
    /\ UNCHANGED <<clock, spans, root_span, active_spans, all_spans, pc, cur,
                   workflow_doc, detector>>

\* detector.detect_all() once more, on a detector whose detect_all has
\* already ended
CallDetectAllAgain ==
    /\ detector.state = "constructed"
    /\ returned.kind \in {"report", "raised"}
    /\ Len(detector.detection_results.failures) <= MaxRecorded
    /\ LET done == DetectAll(detector)
       IN  detector' = done.self /\ returned' = done.outcome
    /\ UNCHANGED <<clock, spans, root_span, active_spans, all_spans, pc, cur,
                   workflow_doc>>

\* ------------------------------------------------------- detector inputs
MaxChildren == 2     \* children of the root span in the traces analysed

\* Sequences of at most MaxChildren choices from S.
ChildChoices(S) == UNION {[1..n -> S] : n \in 0..MaxChildren}

\* A workflow document whose detailed_trace holds the root span dict.
WorkflowOf(root) ==
    [ run_id |-> "run-1",
      detailed_trace |->
          [is_none |-> FALSE, keys |-> {"trace", "total_spans"}, trace |-> <<root>>] ]

\* Workflow documents without a root span: no detailed_trace, an empty one,
\* one that lacks the "trace" key, one whose "trace" is None.
RootlessWorkflows ==
    { NoWorkflow,
      [NoWorkflow EXCEPT !.detailed_trace.is_none = FALSE],
      [NoWorkflow EXCEPT !.detailed_trace.is_none = FALSE,
                         !.detailed_trace.keys = {"total_spans"}],
      [NoWorkflow EXCEPT !.detailed_trace.is_none = FALSE,
                         !.detailed_trace.keys = {"trace", "total_spans"}] }

\* Span names.
DebateWorkflow == <<"debate", "_", "workflow">>
PlainWorkflow == <<"workflow">>
Helper == <<"helper">>

\* Traces that differ in what names the workflow type: the root's name, its
\* metadata, the names of its children.
TypeRootNames ==
    { SocialMediaWorkflow, <<"Debate", "_", "workflow">>,
      <<"Social", "_", "Media", "_", "vs", "_", "Debate">>,
      PlainWorkflow, <<"faulty", "_", "analysis", "_", "workflow">> }
TypeMetadata == {<< >>, SocialMedia, TestFaultyMultiagent}
TypeChildNames ==
    { <<"research", "_", "agent">>, <<"Twitter", "_", "writer">>,
      <<"hashtag", "_", "generator">>, Helper }

TypeTraces ==
    { [SpanDict(1, name, "root") EXCEPT
          !.metadata = [workflow_type |-> workflow_type],
          !.children = [k \in DOMAIN kids |-> SpanDict(k + 1, kids[k], "agent")]] :
      name \in TypeRootNames, workflow_type \in TypeMetadata,
      kids \in ChildChoices(TypeChildNames) }

\* Traces that differ in the models their LLM calls declare.
ModelRootNames == {SocialMediaWorkflow, DebateWorkflow, PlainWorkflow}
ModelMetadata == {<< >>, TestFaultyMultiagent}
ModelChoices == {None, "", "gpt-4", "gpt-5", "sonar"}

ModelTraces ==
    { [SpanDict(1, name, "root") EXCEPT
          !.metadata = [workflow_type |-> workflow_type],
          !.children = [k \in DOMAIN kids |->
                           [SpanDict(k + 1, Helper, "llm_call") EXCEPT !.model = kids[k]]]] :
      name \in ModelRootNames, workflow_type \in ModelMetadata,
      kids \in ChildChoices(ModelChoices) }

\* Traces that differ in status and error of their spans.
LogicRootNames == {SocialMediaWorkflow, PlainWorkflow}
StatusChoices == {"success", "error", "running", None}

StatusTraces ==
    { [SpanDict(1, name, "root") EXCEPT
          !.children = [k \in DOMAIN kids |->
                           [SpanDict(k + 1, Helper, "agent") EXCEPT
                               !.status = kids[k][1], !.error = kids[k][2]]]] :
      name \in LogicRootNames,
      kids \in ChildChoices(StatusChoices \X ErrorArgs) }

\* Traces that differ in the durations of a root, its children and
\* grandchildren (0 for "no grandchild"); None is the duration of a span
\* that is still running.
RootDurations == {NoneNum, 2, 3}
ChildDurations == {NoneNum, 1, 2, 3}
GrandchildDurations == {0, 1, 3}

DurationTraces ==
    { [SpanDict(1, name, "root") EXCEPT
          !.duration_ms = root_ms,
          !.children = [k \in DOMAIN kids |->
              [SpanDict(k + 1, Helper, "agent") EXCEPT
                  !.duration_ms = kids[k][1],
                  !.children =
                      IF kids[k][2] = 0 THEN << >>
                      ELSE << [SpanDict(k + 11, Helper, "llm_call") EXCEPT
                                  !.duration_ms = kids[k][2]] >>]]] :
      name \in LogicRootNames, root_ms \in RootDurations,
      kids \in ChildChoices(ChildDurations \X GrandchildDurations) }

\* Traces that differ in the token counts of their LLM calls:
\* <<tokens_input, tokens_output, tokens_total>>.
TokenChoices ==
    { <<NoneNum, NoneNum, NoneNum>>, <<1, 2, 3>>, <<1, 2, 4>>,
      <<NoneNum, NoneNum, 4>>, <<0, 0, 0>>, <<1, 1, 0>> }

TokenTraces ==
    { [SpanDict(1, name, "root") EXCEPT
          !.children = [k \in DOMAIN kids |->
              [SpanDict(k + 1, Helper, "llm_call") EXCEPT
                  !.tokens_input = kids[k][1],
                  !.tokens_output = kids[k][2],
                  !.tokens_total = kids[k][3]]]] :
      name \in LogicRootNames, kids \in ChildChoices(TokenChoices) }

\* Traces that mix spans with an unset field and spans with a failure to
\* report: a span still running (status running, no duration), an LLM call
\* with a total and no input and output counts, an LLM call that declares
\* "gpt-5", an agent that succeeded with an error.
MixedChoices == {"running", "partial_tokens", "invalid_model", "status_mismatch"}

MixedSpan(span_id, choice) ==
    CASE choice = "running" ->
            [SpanDict(span_id, Helper, "agent") EXCEPT
                !.status = "running", !.duration_ms = NoneNum]
      [] choice = "partial_tokens" ->
            [SpanDict(span_id, Helper, "llm_call") EXCEPT !.tokens_total = 4]
      [] choice = "invalid_model" ->
            [SpanDict(span_id, Helper, "llm_call") EXCEPT !.model = "gpt-5"]
      [] choice = "status_mismatch" ->
            [SpanDict(span_id, Helper, "agent") EXCEPT !.error = "boom"]

MixedTraces ==
    { [SpanDict(1, name, "root") EXCEPT
          !.children = [k \in DOMAIN kids |-> MixedSpan(k + 1, kids[k])]] :
      name \in LogicRootNames, kids \in ChildChoices(MixedChoices) }

\* Output texts that name endpoints: "/api/fake /api/fake.",
\* "/api/magic /api/fake", "/api/runs/1" and "/api/chatter" (both start with
\* a listed endpoint), "/api/runner" (starts with none).
ApiFakeTwice == <<"/api/", "fake", " ", "/api/", "fake", ".">>
ApiMagicFake == <<"/api/", "magic", " ", "/api/", "fake">>
ApiRuns == <<"/api/", "run", "s", "/", "1">>
ApiChatter == <<"/api/", "chat", "ter">>
ApiRunner == <<"/api/", "run", "ner">>
ApiOutputs == {NoneStr, ApiFakeTwice, ApiMagicFake, ApiRuns, ApiChatter, ApiRunner}
ApiGrandchildOutputs == {<< >>, ApiFakeTwice, ApiMagicFake}

\* Traces that differ in the endpoints their outputs name; a child may have
\* a grandchild (<< >> for "no grandchild"), which precedes the next child
\* in the flattened list.
ApiTraces ==
    { [SpanDict(1, name, "root") EXCEPT
          !.output = root_output,
          !.children = [k \in DOMAIN kids |->
              [SpanDict(k + 1, Helper, "llm_call") EXCEPT
                  !.output = kids[k][1],
                  !.children =
                      IF kids[k][2] = << >> THEN << >>
                      ELSE << [SpanDict(k + 11, Helper, "llm_call") EXCEPT
                                  !.output = kids[k][2]] >>]]] :
      name \in LogicRootNames, root_output \in {NoneStr, ApiMagicFake},
      kids \in ChildChoices(ApiOutputs \X ApiGrandchildOutputs) }

\* Texts of agent outputs and inputs: "Based on the quarterly survey.",
\* the same twice, "based on data." (no significant word), "the plan is
\* based on the annual report." (a claim and a reference), "the user_type"
\* (a field); "quarterly Survey results" and "survey figures".
RefSurvey == <<"Based", " ", "on", " ", "the", " ", "quarterly", " ", "survey", ".">>
RefSurveyTwice == RefSurvey \o <<" ">> \o RefSurvey
RefGeneric == <<"based", " ", "on", " ", "data", ".">>
RefClaim ==
    <<"the", " ", "plan", " ", "is", " ", "based", " ", "on", " ", "the", " ",
      "annual", " ", "report", ".">>
FieldText == <<"the", " ", "user", "_", "type">>
SurveyResults == <<"quarterly", " ", "Survey", " ", "results">>
SurveyFigures == <<"survey", " ", "figures">>

RefOutputs == {NoneStr, RefSurvey, RefSurveyTwice, RefGeneric, RefClaim, FieldText}
RefInputs == {NoneStr, SurveyResults, SurveyFigures}

\* Traces that differ in what their spans say they rely on and in what the
\* other spans hold.
ReferenceTraces ==
    { [SpanDict(1, name, "root") EXCEPT
          !.input = root_input,
          !.children = [k \in DOMAIN kids |->
              [SpanDict(k + 1, Helper, kids[k][1]) EXCEPT
                  !.output = kids[k][2], !.input = kids[k][3]]]] :
      name \in LogicRootNames, root_input \in {NoneStr, SurveyResults},
      kids \in ChildChoices({"agent", "llm_call"} \X RefOutputs \X RefInputs) }

\* Agents the contract tables name, as <<name, start_time, duration_ms,
\* nested>>: content_strategist in time, late and over its ceiling, late and
\* still running; twitter_writer under the root, under a helper agent, still
\* running; hashtag_generator over and within its ceiling; analyzer over its
\* ceiling; data_collector under the root and under a helper agent.  A
\* nested agent is the child of a helper agent that starts one tick earlier.
TwitterWriter == <<"twitter", "_", "writer">>
HashtagGenerator == <<"hashtag", "_", "generator">>
Analyzer == <<"analyzer">>
DataCollector == <<"data", "_", "collector">>
FaultyAnalysisWorkflow == <<"faulty", "_", "analysis", "_", "workflow">>

ContractChoices ==
    { <<ContentStrategist, 3, 20000, FALSE>>, <<ContentStrategist, 7, 40000, FALSE>>,
      <<ContentStrategist, 7, NoneNum, FALSE>>,
      <<TwitterWriter, 5, 100, FALSE>>, <<TwitterWriter, 5, 100, TRUE>>,
      <<TwitterWriter, 5, NoneNum, FALSE>>,
      <<HashtagGenerator, 6, 20000, FALSE>>, <<HashtagGenerator, 6, 100, FALSE>>,
      <<Analyzer, 7, 6000, FALSE>>,
      <<DataCollector, 5, 100, FALSE>>, <<DataCollector, 5, 100, TRUE>> }

ContractSpan(span_id, choice) ==
    LET agent == [SpanDict(span_id, choice[1], "agent") EXCEPT
                     !.start_time = choice[2],
                     !.duration_ms = choice[3],
                     !.status = IF choice[3] = NoneNum THEN "running" ELSE "success"]
    IN  IF choice[4]
        THEN [SpanDict(span_id + 10, Helper, "agent") EXCEPT
                 !.start_time = choice[2] - 1,
                 !.duration_ms = 50000,
                 !.children = <<agent>>]
        ELSE agent

\* Traces of the two workflows that own a contract table: the social media
\* workflow and the faulty analysis workflow of test_faulty_multiagent.py.
ContractTraces ==
    { [SpanDict(1, root[1], "root") EXCEPT
          !.metadata = [workflow_type |-> root[2]],
          !.duration_ms = 60000,
          !.children = [k \in DOMAIN kids |-> ContractSpan(k + 1, kids[k])]] :
      root \in { <<SocialMediaWorkflow, << >> >>,
                 <<FaultyAnalysisWorkflow, TestFaultyMultiagent>> },
      kids \in ChildChoices(ContractChoices) }


\* ---------------------------------------------------------- specifications
\* of the detector: a workflow document is given; callers analyse it once,
\* through analyze_workflow_coordination or through a detector they
\* construct themselves.
NextDetect ==
    \/ Analyze
    \/ Construct
    \/ CallDetectAll

\* The detector over every kind of workflow document.
InitDetect ==
    /\ InitTracer
    /\ workflow_doc \in
          RootlessWorkflows
          \cup {WorkflowOf(root) :
                  root \in ModelTraces \cup StatusTraces \cup DurationTraces
                           \cup TokenTraces \cup MixedTraces \cup ApiTraces
                           \cup ReferenceTraces \cup ContractTraces}
    /\ detector = NoDetector
    /\ returned = NotCalled

SpecDetect == InitDetect /\ [][NextDetect]_vars

\* The detector over the documents that differ in what names the workflow
\* type.
InitWorkflowType ==
    /\ InitTracer
    /\ workflow_doc \in {WorkflowOf(root) : root \in TypeTraces}
    /\ detector = NoDetector
    /\ returned = NotCalled

SpecWorkflowType == InitWorkflowType /\ [][NextDetect]_vars

\* The health score: a detector is constructed; its report and the score of
\* any counts per severity are computed.
NextHealth ==
    \/ Construct
    \/ CallDetectAll
    \/ CallCalculateHealthScore

InitHealth ==
    /\ InitTracer
    /\ workflow_doc \in {WorkflowOf(root) : root \in MixedTraces}
    /\ detector = NoDetector
    /\ returned = NotCalled

SpecHealth == InitHealth /\ [][NextHealth]_vars

\* Detection run repeatedly on one detector.
NextRepeat ==
    \/ Construct
    \/ CallDetectAll
    \/ CallDetectAllAgain

InitRepeat ==
    /\ InitTracer
    /\ workflow_doc \in
          {WorkflowOf(root) :
              root \in StatusTraces \cup TokenTraces \cup MixedTraces \cup ContractTraces}
    /\ detector = NoDetector
    /\ returned = NotCalled

SpecRepeat == InitRepeat /\ [][NextRepeat]_vars

\* ------------------------------------------------------------------ claims

Ended(i) == spans[i].end_time # NoneNum

\* Number of occurrences of x in seq.
Count(x, seq) == Cardinality({k \in 1..Len(seq) : seq[k] = x})

\* Position of x in seq (x occurs in seq).
IndexOf(x, seq) == CHOOSE k \in 1..Len(seq) : seq[k] = x

\* What end_span(status, error) leaves as the status.
EffectiveStatus(status, error) == IF Truthy(error) THEN "error" ELSE status

\* C1 as stated: every end_span call that supplies an error string, the empty
\* string included, leaves the span with status error and that string
\* recorded as its error, whatever status was requested.
C1_AnyErrorStringForcesError ==
    [][\A i \in active_spans, s \in SpanStatus, e \in ErrorArgs :
          e # None =>
              \/ (spans'[i].status = "error" /\ spans'[i].error = e)
              \/ ~EndSpan(i, s, e)]_vars

\* C1 amended: every end_span call that supplies a non-empty error string
\* leaves the span with status error and that string recorded as its error,
\* whatever status (running, success, error) was requested.
C1_NonEmptyErrorForcesError ==
    [][\A i \in active_spans, s \in SpanStatus, e \in ErrorArgs :
          Truthy(e) =>
              \/ (spans'[i].status = "error" /\ spans'[i].error = e)
              \/ ~EndSpan(i, s, e)]_vars

\* C1 witness: a span that was ended with the error string "boom".
C1_Witness ==
    \E i \in active_spans :
        Ended(i) /\ spans[i].status = "error" /\ spans[i].error = "boom"

\* C2: every ended span, however often it was ended, has duration_ms equal to
\* end_time - start_time in whole milliseconds (the difference truncated).
C2_DurationMatchesTimes ==
    \A i \in DOMAIN spans :
        Ended(i) =>
            /\ spans[i].duration_ms * TicksPerMs
                   <= spans[i].end_time - spans[i].start_time
            /\ spans[i].end_time - spans[i].start_time
                   < (spans[i].duration_ms + 1) * TicksPerMs

\* C2 witness: a span ended more than once (its recorded error is from an
\* earlier end than its status), last at a time that is not a whole number of
\* milliseconds after its start.
C2_Witness ==
    \E i \in active_spans :
        /\ Ended(i) /\ spans[i].error = "boom" /\ spans[i].status # "error"
        /\ (spans[i].end_time - spans[i].start_time) % TicksPerMs # 0

\* C3 as stated: in get_flat_spans the root has depth 0 and every other span
\* has a parent in the list whose depth is one less than its own.
C3_EveryNonRootBelowItsParent ==
    \A k \in DOMAIN GetFlatSpans :
        LET e == GetFlatSpans[k]
        IN  IF e.span_id = root_span
            THEN e.depth = 0
            ELSE \E j \in DOMAIN GetFlatSpans :
                    /\ GetFlatSpans[j].span_id = e.parent_span_id
                    /\ e.depth = GetFlatSpans[j].depth + 1

\* C3 amended: in get_flat_spans a span with no parent id (the root, an
\* earlier root that start_root_span replaced, a span started before any
\* root) has depth 0, a span whose parent id names no span of the tracer has
\* depth 1, and every other span's depth is its parent's depth plus 1.
C3_DepthFollowsParentLinks ==
    \A k \in DOMAIN GetFlatSpans :
        LET e == GetFlatSpans[k]
            parents == {j \in DOMAIN GetFlatSpans :
                            GetFlatSpans[j].span_id = e.parent_span_id}
        IN  /\ e.parent_span_id = NoneId => e.depth = 0
            /\ (e.parent_span_id # NoneId /\ parents = {}) => e.depth = 1
            /\ \A j \in parents : e.depth = GetFlatSpans[j].depth + 1

\* C3 witness: the list holds a span at depth 2, below a parent at depth 1.
C3_Witness ==
    \E k, j \in DOMAIN GetFlatSpans :
        /\ GetFlatSpans[k].parent_span_id = GetFlatSpans[j].span_id
        /\ GetFlatSpans[j].depth = 1
        /\ GetFlatSpans[k].depth = 2

\* C4: a second start_root_span call is rejected: it leaves the root, the
\* flat index and the span map as they were.
C4_SecondRootRejected ==
    [][(root_span # NoneId /\ StartRootSpan)
          => (root_span' = root_span /\ all_spans' = all_spans
              /\ active_spans' = active_spans)]_vars

\* C5 as stated: every non-root span of the flat index has a parent in the
\* map and is, exactly once, in that parent's child list and in no other.
C5_EveryNonRootIsAChild ==
    \A i \in DOMAIN spans :
        (Count(i, all_spans) > 0 /\ i # root_span) =>
            /\ spans[i].parent_span_id \in active_spans
            /\ \A q \in DOMAIN spans :
                  Count(i, spans[q].children)
                      = IF q = spans[i].parent_span_id THEN 1 ELSE 0

\* C5 amended, the state part: every span is once in the flat index and in
\* the map; it is exactly once in the child list of the span its
\* parent_span_id names when that span is in the map, and in no other child
\* list; with no parent id, or one that names no span, it is in none.
C5_Registered ==
    \A i \in DOMAIN spans :
        /\ Count(i, all_spans) = 1
        /\ i \in active_spans
        /\ \A q \in DOMAIN spans :
              Count(i, spans[q].children)
                  = IF q = spans[i].parent_span_id THEN 1 ELSE 0

\* C5 amended, the step part: start_span gives the new span the parent id it
\* was passed, or the current root's id (None when there is no root) when
\* none was passed, and leaves the earlier entries of the flat index alone.
C5_StartSpanStep ==
    \A t \in StartTypes, p \in active_spans \cup {NoneId, GhostId} :
        StartSpan(t, p) =>
            /\ all_spans' = Append(all_spans, NextId)
            /\ spans'[NextId].parent_span_id = (IF p # NoneId THEN p ELSE root_span)

\* C5 amended.
C5_ChildOfNamedParent == []C5_Registered /\ [][C5_StartSpanStep]_vars

\* C5 witness: one span is in its parent's child list and another span, with
\* no parent in the map, is in no child list.
C5_Witness ==
    /\ \E i \in active_spans :
          /\ spans[i].parent_span_id \in active_spans
          /\ Count(i, spans[spans[i].parent_span_id].children) = 1
    /\ \E i \in active_spans :
          /\ spans[i].span_type # "root"
          /\ spans[i].parent_span_id \notin active_spans

\* C6: once concurrent start_span calls have returned, each started span is
\* exactly once in the map, in the flat index and in its parent's child
\* list, and every child list is in the order of the flat index.
C6_NoLostOrReorderedUpdate ==
    AllDone =>
        /\ \A a \in Agents :
              /\ cur[a] \in active_spans
              /\ Count(cur[a], all_spans) = 1
              /\ spans[cur[a]].parent_span_id \in active_spans
                    => Count(cur[a], spans[spans[cur[a]].parent_span_id].children) = 1
        /\ \A q \in DOMAIN spans :
              \A m, n \in 1..Len(spans[q].children) :
                  m < n => IndexOf(spans[q].children[m], all_spans)
                               < IndexOf(spans[q].children[n], all_spans)

\* C7 as stated: once a span has been ended, no later step gives it another
\* status.
C7_TerminalStatusFinal ==
    [][\A i \in active_spans : Ended(i) => spans'[i].status = spans[i].status]_vars

\* C7 amended: an ended span stays ended and only end_span changes a span's
\* status, but the status is not final: every end_span call on a span of the
\* map, the first or a later one, sets the status to error when it supplies a
\* non-empty error string and to the requested status otherwise.
C7_EndSpanOverwritesStatus ==
    [][\A i \in active_spans :
          /\ Ended(i) => spans'[i].end_time # NoneNum
          /\ spans'[i].status # spans[i].status
                => \E s \in SpanStatus, e \in ErrorArgs : EndSpan(i, s, e)
          /\ \A s \in SpanStatus, e \in ErrorArgs :
                spans'[i].status = EffectiveStatus(s, e) \/ ~EndSpan(i, s, e)]_vars

\* C7 witness: a span that was ended with an error and then ended again with
\* status success and no error: its status moved from error to success.
C7_Witness ==
    \E i \in active_spans :
        Ended(i) /\ spans[i].error = "boom" /\ spans[i].status = "success"

RootEnded == root_span # NoneId /\ Ended(root_span)

\* C8: once the root span has ended, no start_span or end_span call changes
\* the flat index or the trace get_trace returns.
C8_ImmutableAfterRootEnd ==
    [][(/\ RootEnded
        /\ \/ \E t \in StartTypes, p \in active_spans \cup {NoneId, GhostId} :
                 StartSpan(t, p)
           \/ \E i \in active_spans, s \in SpanStatus, e \in ErrorArgs :
                 EndSpan(i, s, e))
          => (all_spans' = all_spans /\ GetTrace' = GetTrace)]_vars

\* C9: an ended span's duration never exceeds the duration of its ended
\* parent.
C9_ChildDurationWithinParent ==
    \A i \in active_spans :
        LET p == spans[i].parent_span_id
        IN  (p \in active_spans /\ Ended(i) /\ Ended(p))
                => spans[i].duration_ms <= spans[p].duration_ms

\* C10: a detail setter called on a span of another type than its kind
\* leaves every field of the span unchanged (the setters have no failure
\* outcome), for each of the three setters.
C10_MismatchedSetterIsNoOp ==
    [][\A i \in DOMAIN spans :
          /\ (/\ spans[i].span_type # "llm_call"
              /\ \E m \in ModelArgs, ti \in TokenArgs, to \in TokenArgs, c \in CostArgs :
                    AddLlmDetails(i, m, ti, to, c))
                => spans'[i] = spans[i]
          /\ (/\ spans[i].span_type # "api_call"
              /\ \E m \in MethodArgs, u \in UrlArgs, sc \in StatusCodeArgs :
                    AddApiDetails(i, m, u, sc))
                => spans'[i] = spans[i]
          /\ (/\ spans[i].span_type # "database"
              /\ \E o \in OperationArgs, c \in CollectionArgs :
                    AddDatabaseDetails(i, o, c))
                => spans'[i] = spans[i]]_vars

\* Sum of a sequence of numbers.
RECURSIVE SeqSum(_)
SeqSum(seq) == IF seq = << >> THEN 0 ELSE Head(seq) + SeqSum(Tail(seq))

\* Number of spans in a nested structure as to_dict returns it.
RECURSIVE TreeSize(_)
TreeSize(node) ==
    1 + SeqSum([k \in 1..Len(node.children) |-> TreeSize(node.children[k])])

\* Sum of a numeric field over the spans of a nested structure (unset = 0).
RECURSIVE TreeTotal(_, _)
TreeTotal(node, field) ==
    (IF node[field] = NoneNum THEN 0 ELSE node[field])
    + SeqSum([k \in 1..Len(node.children) |-> TreeTotal(node.children[k], field)])

\* Ids of the spans of a nested structure.
RECURSIVE TreeIds(_)
TreeIds(node) ==
    {node.span_id} \cup UNION {TreeIds(node.children[k]) : k \in 1..Len(node.children)}

\* Sum of a numeric field over a set of spans of the heap (unset = 0).
RECURSIVE HeapTotal(_, _)
HeapTotal(ids, field) ==
    IF ids = {} THEN 0
    ELSE LET i == CHOOSE x \in ids : TRUE
         IN  (IF spans[i][field] = NoneNum THEN 0 ELSE spans[i][field])
             + HeapTotal(ids \ {i}, field)

\* C11 as stated: whenever get_trace returns a trace, total_spans is the
\* number of spans reachable from the root through child lists, and
\* total_tokens and total_cost_usd are the sums of tokens_total and cost_usd
\* over those same spans.
C11_AggregatesCoverNestedStructure ==
    root_span # NoneId =>
        LET t == GetTrace
        IN  /\ t.total_spans = TreeSize(t.trace)
            /\ t.total_tokens = TreeTotal(t.trace, "tokens_total")
            /\ t.total_cost_usd = TreeTotal(t.trace, "cost_usd")

\* C11 amended: whenever get_trace returns a trace, total_spans is the
\* number of spans ever started and total_tokens and total_cost_usd are the
\* sums over all of them; the spans of the nested structure are among them,
\* and the aggregates are those of the nested structure when every started
\* span is in it.
C11_AggregatesCoverFlatIndex ==
    root_span # NoneId =>
        LET t == GetTrace
        IN  /\ t.total_spans = Cardinality(DOMAIN spans)
            /\ t.total_tokens = HeapTotal(DOMAIN spans, "tokens_total")
            /\ t.total_cost_usd = HeapTotal(DOMAIN spans, "cost_usd")
            /\ TreeIds(t.trace) \subseteq DOMAIN spans
            /\ TreeSize(t.trace) = Cardinality(TreeIds(t.trace))
            /\ TreeIds(t.trace) = DOMAIN spans =>
                    /\ t.total_tokens = TreeTotal(t.trace, "tokens_total")
                    /\ t.total_cost_usd = TreeTotal(t.trace, "cost_usd")

\* C11 witness: get_trace returns a trace while a span that carries token
\* counts is in the flat index and not in the nested structure.
C11_Witness ==
    /\ root_span # NoneId
    /\ \E i \in DOMAIN spans :
          /\ i \notin TreeIds(GetTrace.trace)
          /\ spans[i].tokens_total # NoneNum

\* ---- the detector's claims
\* A detector call has ended.
Called == returned.kind # "not_called"

\* detect_all has ended on a detector the caller constructed.
DetectAllCalled == detector.state = "constructed" /\ Called

\* The failures of the report the call returned, none when it returned no
\* report.
Reported == IF returned.kind = "report" THEN returned.report.failures ELSE << >>

\* The workflow document holds a root span.
HasRoot ==
    /\ ~workflow_doc.detailed_trace.is_none
    /\ "trace" \in workflow_doc.detailed_trace.keys
    /\ workflow_doc.detailed_trace.trace # << >>

\* The spans of the document's trace in traversal order, each with the
\* index of its direct parent (0 for the root).
TraceSpans ==
    IF HasRoot THEN FlattenSpans(workflow_doc.detailed_trace.trace[1], 0, << >>) ELSE << >>

\* Number of reported failures of a subtype and severity for a span.
ReportedFor(span, type, subtype, severity) ==
    Cardinality({k \in 1..Len(Reported) :
                    /\ Reported[k].type = type
                    /\ Reported[k].subtype = subtype
                    /\ Reported[k].severity = severity
                    /\ Reported[k].span_id = span.span_id})

\* C12: detect_all never raises: whatever fields the spans of the trace
\* lack or hold as None, it returns a report, and the report still holds the
\* invalid_model record of every span that declares an invalid model and the
\* status_error_mismatch record of every span that succeeded with an error.
C12_DetectAllNeverRaises ==
    DetectAllCalled =>
        /\ returned.kind = "report"
        /\ \A k \in 1..Len(TraceSpans) :
              LET span == TraceSpans[k]
              IN  /\ (Truthy(span.model) /\ span.model \notin detector.valid_models)
                        => ReportedFor(span, "hallucination", "invalid_model", "high") = 1
                  /\ (span.status = "success" /\ Truthy(span.error))
                        => ReportedFor(span, "logical_inconsistency",
                                       "status_error_mismatch", "high") = 1

\* C13: for a workflow type that owns no contract table or no
\* platform_writers entry ("unknown" among them), detection returns a
\* report; the type "unknown" gets the base model set; and where there is
\* no contract table, the report holds no contract_violation record.
C13_AbsentContractsAreSkipped ==
    (DetectAllCalled /\ "platform_writers" \notin DOMAIN ContractsFor(detector.workflow_type))
        => /\ returned.kind = "report"
           /\ detector.workflow_type = Unknown => detector.valid_models = BASE_VALID_MODELS
           /\ ContractsFor(detector.workflow_type) = << >> =>
                  \A k \in 1..Len(Reported) : Reported[k].type # "contract_violation"

\* C14: analyze_workflow_coordination returns None (no report) exactly when
\* the workflow document has no trace or its trace has no root span, and a
\* report whenever the trace has a root span.
C14_NoReportExactlyWithoutRoot ==
    (Called /\ detector.state = "absent")
        => /\ returned.kind = "None" <=> ~HasRoot
           /\ HasRoot => returned.kind = "report"

\* The workflow types whose keywords occur in a root span's name.
RootNameTypes(root) ==
    { t \in {SocialMedia, Debate} : Contains(Lower(root.name), t) }

\* The workflow types whose keywords occur in a child span's name.
ChildNameTypes(child) ==
    LET child_name == Lower(child.name)
    IN  { t \in {Debate} :
            \E kw \in {<<"research", "_", "agent">>, <<"debate", "_", "agent">>} :
                Contains(child_name, kw) }
        \cup
        { t \in {SocialMedia} :
            \E kw \in {"twitter", "linkedin", "instagram", "facebook", "hashtag"} :
                Contains(child_name, <<kw>>) }

\* C15: the workflow type of a constructed detector is chosen by first match
\* in a fixed priority: a keyword in the root span's name; else a non-empty
\* workflow_type in the root's metadata; else a keyword in the name of the
\* first direct child that has one; else "unknown".  A lower-priority signal
\* never overrides a matching higher-priority one.
C15_WorkflowTypePriority ==
    (detector.state = "constructed" /\ HasRoot) =>
        LET root == workflow_doc.detailed_trace.trace[1]
            declared == root.metadata.workflow_type
            children == root.children
            matching == { k \in 1..Len(children) : ChildNameTypes(children[k]) # {} }
            chosen == detector.workflow_type
        IN  IF RootNameTypes(root) # {} THEN chosen \in RootNameTypes(root)
            ELSE IF declared # << >> THEN chosen = declared
            ELSE IF matching # {}
            THEN \E k \in matching :
                    /\ \A j \in matching : k <= j
                    /\ chosen \in ChildNameTypes(children[k])
            ELSE chosen = Unknown

\* A detector built over a trace whose root name says "Debate" while its
\* metadata says social_media and a child is a Twitter writer: the name wins.
C15_Witness ==
    /\ detector.state = "constructed"
    /\ HasRoot
    /\ LET root == workflow_doc.detailed_trace.trace[1]
       IN  /\ RootNameTypes(root) = {Debate}
           /\ root.metadata.workflow_type = SocialMedia
           /\ \E k \in 1..Len(root.children) :
                 ChildNameTypes(root.children[k]) = {SocialMedia}
    /\ detector.workflow_type = Debate

\* The models valid in a workflow of the given type: the base set and the
\* type's own set.
ModelsValidIn(workflow_type) ==
    BASE_VALID_MODELS
        \cup (IF workflow_type = Debate THEN DEBATE_WORKFLOW_MODELS
              ELSE IF workflow_type = SocialMedia THEN SOCIAL_MEDIA_WORKFLOW_MODELS
              ELSE {})

\* C16: a span yields exactly one high-severity hallucination record with
\* subtype invalid_model if it declares a model outside the base model set
\* unioned with the model set of the inferred workflow type, and none
\* otherwise.
C16_InvalidModelFlaggedExactlyOnce ==
    DetectAllCalled =>
        \A k \in 1..Len(TraceSpans) :
            LET span == TraceSpans[k]
                invalid == /\ Truthy(span.model)
                           /\ span.model \notin ModelsValidIn(detector.workflow_type)
            IN  ReportedFor(span, "hallucination", "invalid_model", "high")
                    = IF invalid THEN 1 ELSE 0

\* The API paths the output of a span holds.
ApiPathsOf(span) == Range(FindApiReferences(span.output, 1))

\* The reported invented_api records for a path.
InventedApiRecords(path) ==
    { n \in 1..Len(Reported) :
        /\ Reported[n].type = "hallucination"
        /\ Reported[n].subtype = "invented_api"
        /\ Reported[n].evidence.claimed_api = path }

\* C17: each distinct invented API path in the outputs of a trace yields
\* exactly one invented_api record, attributed to the first span in
\* traversal order whose output holds it; a path that starts with an
\* allow-listed prefix yields none.
C17_InventedApiReportedOnce ==
    DetectAllCalled =>
        \A k \in 1..Len(TraceSpans) : \A path \in ApiPathsOf(TraceSpans[k]) :
            LET holders == { j \in 1..Len(TraceSpans) : path \in ApiPathsOf(TraceSpans[j]) }
                first == CHOOSE j \in holders : \A i \in holders : j <= i
            IN  IF IsValidApi(path)
                THEN InventedApiRecords(path) = {}
                ELSE /\ Cardinality(InventedApiRecords(path)) = 1
                     /\ \A n \in InventedApiRecords(path) :
                           Reported[n].span_id = TraceSpans[first].span_id

\* C18: a span yields exactly one high-severity status_error_mismatch record
\* if its status is success and its error message is not null, and none
\* otherwise.
C18_StatusErrorMismatchFlagged ==
    DetectAllCalled =>
        \A k \in 1..Len(TraceSpans) :
            LET span == TraceSpans[k]
            IN  ReportedFor(span, "logical_inconsistency", "status_error_mismatch", "high")
                    = IF span.status = "success" /\ span.error # None THEN 1 ELSE 0

\* The reported duration_inconsistency records of a span.
DurationRecords(span) ==
    { n \in 1..Len(Reported) :
        /\ Reported[n].type = "logical_inconsistency"
        /\ Reported[n].subtype = "duration_inconsistency"
        /\ Reported[n].span_id = span.span_id }

\* C19: a span whose recorded duration exceeds that of its direct parent
\* yields exactly one medium-severity duration_inconsistency record that
\* carries both durations as recorded; a span whose duration is at most its
\* parent's yields none.
C19_DurationInversionFlagged ==
    DetectAllCalled =>
        \A k \in 1..Len(TraceSpans) :
            LET span == TraceSpans[k]
            IN  span.parent_span # 0 =>
                    LET parent == TraceSpans[span.parent_span]
                        exceeds == /\ span.duration_ms # NoneNum
                                   /\ parent.duration_ms # NoneNum
                                   /\ span.duration_ms > parent.duration_ms
                    IN  /\ Cardinality(DurationRecords(span)) = IF exceeds THEN 1 ELSE 0
                        /\ \A n \in DurationRecords(span) :
                              /\ Reported[n].severity = "medium"
                              /\ Reported[n].evidence.child_duration_ms = span.duration_ms
                              /\ Reported[n].evidence.parent_duration_ms = parent.duration_ms

\* The significant words of a reference text.
SignificantWords(reference) ==
    Range(SelectSeq(SplitWords(Strip(Lower(reference))), IsSignificant))

\* The input or the output of the span holds two of the words.
HoldsTwoOf(span, words) ==
    \/ Cardinality({w \in words : Contains(Lower(span.output), w)}) >= 2
    \/ Cardinality({w \in words : Contains(Lower(span.input), w)}) >= 2

\* The reported missing_reference records for a reference text.
MissingReferenceRecords(reference) ==
    { n \in 1..Len(Reported) :
        /\ Reported[n].type = "missing_context"
        /\ Reported[n].subtype = "missing_reference"
        /\ Reported[n].severity = "high"
        /\ Lower(Strip(Reported[n].evidence.reference)) = Lower(Strip(reference)) }

\* C20: an agent span whose output says "based on X", where X has at least
\* two significant words and no other span's input or output holds two of
\* them, yields exactly one high-severity missing_reference record, however
\* often the reference text occurs in the trace.
C20_MissingReferenceFlagged ==
    DetectAllCalled =>
        \A k \in 1..Len(TraceSpans) :
            TraceSpans[k].span_type = "agent" =>
                \A reference \in Range(FindBasedOn(TraceSpans[k].output, 1)) :
                    LET words == SignificantWords(reference)
                        elsewhere == \E j \in 1..Len(TraceSpans) :
                                        j # k /\ HoldsTwoOf(TraceSpans[j], words)
                    IN  (Cardinality(words) >= 2 /\ ~elsewhere)
                            => Cardinality(MissingReferenceRecords(reference)) = 1

\* The agents a workflow type's contract table requires to run first (the
\* entries with must_run_first).
RunsFirst(workflow_type) ==
    IF workflow_type = SocialMedia THEN {ContentStrategist}
    ELSE IF workflow_type = TestFaultyMultiagent THEN {Analyzer}
    ELSE {}

\* The agent spans of the trace with the name, as indices of TraceSpans.
AgentsNamed(name) ==
    { k \in 1..Len(TraceSpans) :
        TraceSpans[k].span_type = "agent" /\ TraceSpans[k].name = name }

\* The reported records of a type, subtype and severity.
RecordsOf(type, subtype, severity) ==
    { n \in 1..Len(Reported) :
        /\ Reported[n].type = type
        /\ Reported[n].subtype = subtype
        /\ Reported[n].severity = severity }

\* C21: when the contract table of the workflow type requires a named agent
\* to run first, that agent ran, and another agent span started before it,
\* the report holds exactly one high-severity execution_order record; so for
\* content_strategist in social_media and for analyzer in
\* test_faulty_multiagent.
C21_ExecutionOrderFlagged ==
    DetectAllCalled =>
        \A name \in RunsFirst(detector.workflow_type) :
            ( /\ AgentsNamed(name) # {}
              /\ \E j \in 1..Len(TraceSpans) :
                    /\ TraceSpans[j].span_type = "agent"
                    /\ TraceSpans[j].name # name
                    /\ \A k \in AgentsNamed(name) :
                          TraceSpans[j].start_time < TraceSpans[k].start_time )
            => Cardinality(RecordsOf("contract_violation", "execution_order", "high")) = 1

\* A token count, an unset one counted as 0.
TokenCount(x) == IF x = NoneNum THEN 0 ELSE x

\* The reported token_count_mismatch records of a span.
TokenRecords(span) ==
    { n \in 1..Len(Reported) :
        /\ Reported[n].type = "logical_inconsistency"
        /\ Reported[n].subtype = "token_count_mismatch"
        /\ Reported[n].span_id = span.span_id }

\* C22: a span yields a low-severity token_count_mismatch record, one,
\* exactly when its tokens_total is present and differs from tokens_input +
\* tokens_output; the evidence of the record carries the recorded total and
\* the expected sum.
C22_TokenMismatchFlagged ==
    DetectAllCalled =>
        \A k \in 1..Len(TraceSpans) :
            LET span == TraceSpans[k]
                expected == TokenCount(span.tokens_input) + TokenCount(span.tokens_output)
                mismatch == span.tokens_total # NoneNum /\ expected # span.tokens_total
            IN  /\ Cardinality(TokenRecords(span)) = IF mismatch THEN 1 ELSE 0
                /\ \A n \in TokenRecords(span) :
                      /\ Reported[n].severity = "low"
                      /\ Reported[n].evidence.tokens_total = span.tokens_total
                      /\ Reported[n].evidence.expected_total = expected

\* The span was never ended: it is running, with no duration.
Running(span) == span.status = "running" /\ span.duration_ms = NoneNum

\* The reported duration_exceeded records of a span.
CeilingRecords(span) ==
    { n \in 1..Len(Reported) :
        /\ Reported[n].type = "contract_violation"
        /\ Reported[n].subtype = "duration_exceeded"
        /\ Reported[n].span_id = span.span_id }

\* C23: a span left running is excluded from the duration-based checks: a
\* trace that holds one is still analysed to a report, and the report holds
\* no duration_inconsistency and no duration_exceeded record for the running
\* span nor for a child of it.
C23_RunningSpanExcluded ==
    (DetectAllCalled /\ \E k \in 1..Len(TraceSpans) : Running(TraceSpans[k])) =>
        /\ returned.kind = "report"
        /\ \A k \in 1..Len(TraceSpans) :
              LET span == TraceSpans[k]
                  under_running == /\ span.parent_span # 0
                                   /\ Running(TraceSpans[span.parent_span])
              IN  /\ Running(span) =>
                        DurationRecords(span) = {} /\ CeilingRecords(span) = {}
                  /\ under_running => DurationRecords(span) = {}

\* The parent contracts of a workflow type, as <<agent name, required
\* parent>> (the entries with must_have_parent; platform_writers names a
\* group of agents).
ParentContracts(workflow_type) ==
    IF workflow_type = SocialMedia
    THEN { <<social_media_contracts.platform_writers.agent_names[k],
             social_media_contracts.platform_writers.must_have_parent>> :
           k \in 1..Len(social_media_contracts.platform_writers.agent_names) }
    ELSE IF workflow_type = TestFaultyMultiagent
    THEN { <<Analyzer, test_faulty_contracts.analyzer.must_have_parent>>,
           <<DataCollector, test_faulty_contracts.data_collector.must_have_parent>>,
           <<<<"reporter">>, test_faulty_contracts.reporter.must_have_parent>> }
    ELSE {}

\* The reported wrong_parent records of a span.
WrongParentRecords(span) ==
    { n \in 1..Len(Reported) :
        /\ Reported[n].type = "contract_violation"
        /\ Reported[n].subtype = "wrong_parent"
        /\ Reported[n].severity = "high"
        /\ Reported[n].span_id = span.span_id }

\* C24: under a parent contract, an agent span of the contract's group
\* yields a high-severity wrong_parent record, one, when its direct parent
\* is missing or has a name other than the required one, and none when it
\* is under the required parent.
C24_WrongParentFlagged ==
    DetectAllCalled =>
        \A contract \in ParentContracts(detector.workflow_type) :
            \A k \in AgentsNamed(contract[1]) :
                LET span == TraceSpans[k]
                    wrong == \/ span.parent_span = 0
                             \/ TraceSpans[span.parent_span].name # contract[2]
                IN  Cardinality(WrongParentRecords(span)) = IF wrong THEN 1 ELSE 0

\* The duration ceilings of a workflow type, as <<agent name,
\* max_duration_ms>>.
Ceilings(workflow_type) ==
    IF workflow_type = SocialMedia
    THEN { <<ContentStrategist, social_media_contracts.content_strategist.max_duration_ms>>,
           <<HashtagGenerator, social_media_contracts.hashtag_generator.max_duration_ms>> }
    ELSE IF workflow_type = TestFaultyMultiagent
    THEN { <<Analyzer, test_faulty_contracts.analyzer.max_duration_ms>>,
           <<DataCollector, test_faulty_contracts.data_collector.max_duration_ms>>,
           <<<<"reporter">>, test_faulty_contracts.reporter.max_duration_ms>> }
    ELSE {}

\* C25: for every agent with a max_duration_ms ceiling in the contract
\* table of the workflow type, a span of that name yields a low-severity
\* duration_exceeded record, one, when its duration exceeds the ceiling, and
\* none when it is within the ceiling.
C25_CeilingFlagged ==
    DetectAllCalled =>
        \A ceiling \in Ceilings(detector.workflow_type) :
            \A k \in 1..Len(TraceSpans) :
                LET span == TraceSpans[k]
                    exceeds == span.duration_ms # NoneNum /\ span.duration_ms > ceiling[2]
                IN  span.name = ceiling[1] =>
                        /\ Cardinality(CeilingRecords(span)) = IF exceeds THEN 1 ELSE 0
                        /\ \A n \in CeilingRecords(span) : Reported[n].severity = "low"

\* A score clamped to [0, 100].
Clamped(score) == IF score < 0 THEN 0 ELSE IF score > 100 THEN 100 ELSE score

\* Number of reported failures of a severity.
ReportedOfSeverity(severity) ==
    Cardinality({n \in 1..Len(Reported) : Reported[n].severity = severity})

\* C26: the health score is 100 minus 15 per high-severity failure, 5 per
\* medium and 1 per low, clamped to [0, 100]: so for the counts handed to
\* _calculate_health_score and for the failures of a report; it lies in
\* [0, 100], and one more failure of any severity never increases it.
C26_HealthScoreClamped ==
    /\ returned.kind = "score" =>
          LET counts == returned.severity_counts
          IN  /\ returned.score
                    = Clamped(100 - 15 * counts.high - 5 * counts.medium - counts.low)
              /\ returned.score \in 0..100
              /\ \A severity \in {"high", "medium", "low"} :
                    CalculateHealthScore([counts EXCEPT ![severity] = @ + 1])
                        <= returned.score
    /\ returned.kind = "report" =>
          returned.report.summary.health_score
              = Clamped(100 - 15 * ReportedOfSeverity("high")
                            - 5 * ReportedOfSeverity("medium")
                            - ReportedOfSeverity("low"))

\* Seven high-severity failures would give -5: the score is 0.
C26_Witness ==
    /\ returned.kind = "score"
    /\ returned.severity_counts = [high |-> 7, medium |-> 0, low |-> 0]
    /\ returned.score = 0

\* C27: running detect_all again on the same detector returns the same
\* report: failures, failure_count, the counts per type and per severity and
\* the health score are those of the report returned before.
C27_RepeatedRunSameReport ==
    [][ ( /\ detector.state = "constructed"
          /\ returned.kind = "report"
          /\ returned'.kind = "report" )
        => returned'.report = returned.report ]_vars

\* Sum of the values of a function with a finite domain.
RECURSIVE SumOf(_)
SumOf(f) ==
    IF DOMAIN f = {} THEN 0
    ELSE LET x == CHOOSE y \in DOMAIN f : TRUE
         IN  f[x] + SumOf([y \in DOMAIN f \ {x} |-> f[y]])

\* C28: in every report detect_all returns, failure_count is the length of
\* the failures list, has_failures is true exactly when failure_count is
\* above 0, summary.total_failures equals failure_count, and the by_type
\* counts and the by_severity counts each sum to failure_count.
C28_ReportCountsAgree ==
    returned.kind = "report" =>
        LET report == returned.report
        IN  /\ report.failure_count = Len(report.failures)
            /\ report.has_failures <=> report.failure_count > 0
            /\ report.summary.total_failures = report.failure_count
            /\ SumOf(report.summary.by_type) = report.failure_count
            /\ SumOf(report.summary.by_severity) = report.failure_count

\* A report of a second run, holding the failures of both runs.
C28_Witness ==
    /\ returned.kind = "report"
    /\ returned.report.failure_count >= 2
    /\ returned.report.failure_count = Len(detector.detection_results.failures)
    /\ Cardinality(DOMAIN returned.report.summary.by_type) >= 2

\* C29: whatever end_span calls a span has received, it is never left with
\* status success together with a non-empty error message.
C29_NoSuccessWithError ==
    \A i \in DOMAIN spans :
        ~(spans[i].status = "success" /\ Truthy(spans[i].error))

\* C30: at every moment and for every span, the status is running exactly
\* when end_time and duration_ms are unset.
C30_RunningIffNotEnded ==
    \A i \in DOMAIN spans :
        spans[i].status = "running"
            <=> (spans[i].end_time = NoneNum /\ spans[i].duration_ms = NoneNum)
====
